---- MODULE Spec2Model ----
(***************************************************************************)
(* Model of the grounding usage accountant (api/llm/grounding_usage.py)    *)
(* and of the tool-call loop of the agent (api/llm/agent.py, run_agent).   *)
(*                                                                         *)
(* The accountant is modelled as a set of concurrent request handlers,     *)
(* each with its own database session, over one shared table               *)
(* search_grounding_usage_monthly.  A handler reads the row of a period,   *)
(* changes its copy in memory and commits; the commit of an INSERT is      *)
(* checked against the unique constraint on period_start, the commit of an *)
(* UPDATE writes the columns the handler changed.                          *)
(***************************************************************************)
EXTENDS Integers, Sequences, FiniteSets, TLC

(***************************************************************************)
(* Bounds of the model.                                                    *)
(***************************************************************************)
NumProcs == 2          \* concurrent request handlers (sessions)
MaxCalls == 2          \* calls of the accountant started in one behaviour
MaxFaults == 2         \* commits that raise IntegrityError without a rival row

Procs == 1..NumProcs

NoValue == 0           \* Python None for an alert timestamp / a cap
NoRow == [ id |-> -1 ] \* Python None for a row / an ORM object
IsNone(usage) == usage.id = -1
NoResult == [ period_start |-> NoValue ]   \* no snapshot (None, or not returned yet)

(***************************************************************************)
(* Inputs of the accountant.                                               *)
(***************************************************************************)
\* the instants datetime.now(timezone.utc) returns, in order
Instants == << [month |-> 2, day |-> 18], [month |-> 3, day |-> 2] >>
Nows == { Instants[i] : i \in 1..Len(Instants) }
QueryCounts == { -1, 0, 1, 3 }
AlertCounts == { 0, 1, 2 }
SoftCapValues == { 0, 1 }
HardCapValues == { 0, 2 }

\* grounding_usage.py get_utc_month_start: the first day of the month of now
get_utc_month_start(now) == [month |-> now.month, day |-> 1]

\* a timestamp column holds the "now" of the call that set it
Stamp(now) == now.month * 100 + now.day

Max(a, b) == IF a >= b THEN a ELSE b

(***************************************************************************)
(* The table and the ORM objects.                                          *)
(***************************************************************************)
Columns == { "grounded_prompts_count", "web_search_queries_count",
             "soft_cap_alert_sent_at", "hard_cap_alert_sent_at" }

\* variant: the new row takes the column defaults instead of the deltas
NewUsage_ColumnDefaults(period_start, grounded_delta, query_delta) ==
    [ id |-> 0,
      period_start |-> period_start,
      grounded_prompts_count |-> 0,
      web_search_queries_count |-> 0,
      soft_cap_alert_sent_at |-> NoValue,
      hard_cap_alert_sent_at |-> NoValue ]

\* SearchGroundingUsageMonthly(period_start=..., grounded_prompts_count=...,
\* web_search_queries_count=...): a pending object, id 0 until it is flushed
NewUsage(period_start, grounded_delta, query_delta) ==
    [ id |-> 0,
      period_start |-> period_start,
      grounded_prompts_count |-> grounded_delta,
      web_search_queries_count |-> query_delta,
      soft_cap_alert_sent_at |-> NoValue,
      hard_cap_alert_sent_at |-> NoValue ]

\* usage.grounded_prompts_count += grounded_delta
\* usage.web_search_queries_count += query_delta
ApplyDelta(usage, grounded_delta, query_delta) ==
    [ usage EXCEPT !.grounded_prompts_count = @ + grounded_delta,
                   !.web_search_queries_count = @ + query_delta ]

\* variant: the table without the unique constraint
UniqueViolation_NoConstraint(tbl, row) == FALSE

\* sa.UniqueConstraint("period_start"): an INSERT of row is refused when the
\* table holds a row of the same period_start
UniqueViolation(tbl, row) ==
    \E r \in tbl : r.period_start = row.period_start

\* query(SearchGroundingUsageMonthly).filter_by(period_start=p).first()
RowsOf(tbl, period_start) == { r \in tbl : r.period_start = period_start }

\* variant: the query without its filter_by(period_start=...)
QueryFirst_AnyPeriod(tbl, period_start) ==
    IF tbl = {} THEN NoRow ELSE CHOOSE r \in tbl : \A s \in tbl : r.id <= s.id

QueryFirst(tbl, period_start) ==
    IF RowsOf(tbl, period_start) = {}
    THEN NoRow
    ELSE CHOOSE r \in RowsOf(tbl, period_start) :
             \A s \in RowsOf(tbl, period_start) : r.id <= s.id

\* the columns an UPDATE of obj writes: those whose value differs from the
\* value loaded from the database
DirtyColumns(loaded, obj) == { c \in Columns : obj[c] # loaded[c] }

\* UPDATE ... SET <dirty columns> WHERE id = obj.id
UpdateRow(tbl, obj, dirty) ==
    { IF r.id = obj.id
      THEN [ c \in DOMAIN r |-> IF c \in dirty THEN obj[c] ELSE r[c] ]
      ELSE r : r \in tbl }

\* INSERT: the autoincrement primary key is the next free id
InsertRow(tbl, obj) == tbl \cup { [ obj EXCEPT !.id = Cardinality(tbl) + 1 ] }

\* the snapshot returned by record_monthly_grounding_usage
Snapshot(usage, grounded_delta, query_delta) ==
    [ period_start |-> usage.period_start,
      grounded_prompts_count |-> usage.grounded_prompts_count,
      web_search_queries_count |-> usage.web_search_queries_count,
      grounded_prompts_delta |-> grounded_delta,
      web_search_queries_delta |-> query_delta ]

\* get_current_month_grounding_usage: the counters of the month of now, zero
\* when the month has no row
get_current_month_grounding_usage(tbl, now) ==
    LET period_start == get_utc_month_start(now)
        usage == QueryFirst(tbl, period_start)
    IN  [ period_start |-> period_start,
          grounded_prompts_count |->
              IF IsNone(usage) THEN 0 ELSE usage.grounded_prompts_count,
          web_search_queries_count |->
              IF IsNone(usage) THEN 0 ELSE usage.web_search_queries_count ]

\* maybe_record_threshold_alerts._parse_cap: None unless a positive integer
parse_cap(value) == IF value <= 0 THEN NoValue ELSE value

\* variant: the threshold test without the check of the timestamp
ThresholdFires_IgnoresSentAt(limit, grounded_count, sent_at) ==
    /\ limit # NoValue
    /\ grounded_count >= limit

\* the test of one threshold in maybe_record_threshold_alerts
ThresholdFires(limit, grounded_count, sent_at) ==
    /\ limit # NoValue
    /\ grounded_count >= limit
    /\ sent_at = NoValue

(***************************************************************************)
(* State of the accountant.                                                *)
(***************************************************************************)
VARIABLES
    table,        \* rows of search_grounding_usage_monthly
    upc,          \* position of each handler
    call,         \* the locals of the handler's current call
    ret,          \* the call that finished last, with what its caller received
    started,      \* calls started so far
    injected,     \* IntegrityErrors raised with no rival row so far
    calledFor,    \* history: per period, deltas of the record calls started
    alertLog,     \* history: per period and threshold, reports and writes
    clock         \* index in Instants of the current time

usageVars == << table, upc, call, ret, started, injected, calledFor, alertLog, clock >>

Periods == { get_utc_month_start(n) : n \in Nows }
PeriodsUpTo(k) == { get_utc_month_start(Instants[i]) : i \in 1..k }
Thresholds == { "soft_cap", "hard_cap" }

NoCall == [ op |-> "none" ]
NoSeen == [ soft_cap |-> NoValue, hard_cap |-> NoValue ]
InSeq(x, seq) == \E i \in 1..Len(seq) : seq[i] = x
ColumnOf(threshold) ==
    IF threshold = "soft_cap" THEN "soft_cap_alert_sent_at" ELSE "hard_cap_alert_sent_at"

\* the row a completed call record_monthly_grounding_usage(True, 0) at the
\* first instant leaves behind
FirstRow ==
    [ NewUsage(get_utc_month_start(Instants[1]), 1, 0) EXCEPT !.id = 1 ]

\* the table is empty, or holds the row of the current month that an earlier
\* call has created
UsageInit ==
    /\ upc = [ p \in Procs |-> "idle" ]
    /\ call = [ p \in Procs |-> NoCall ]
    /\ ret = NoCall
    /\ started = 0
    /\ injected = 0
    /\ alertLog = [ d \in Periods |-> [ t \in Thresholds |-> [ reports |-> 0, writes |-> 0 ] ] ]
    /\ clock = 1
    /\ \/ /\ table = {}
          /\ calledFor = [ d \in Periods |-> [ calls |-> 0, grounded |-> 0, queries |-> 0 ] ]
       \/ /\ table = { FirstRow }
          /\ calledFor = [ d \in Periods |->
                 IF d = FirstRow.period_start
                 THEN [ calls |-> 1, grounded |-> FirstRow.grounded_prompts_count,
                        queries |-> FirstRow.web_search_queries_count ]
                 ELSE [ calls |-> 0, grounded |-> 0, queries |-> 0 ] ]

\* the handlers are interchangeable: a new call is served by the first free one
FirstFree(p) == upc[p] = "idle" /\ \A q \in Procs : upc[q] = "idle" => p <= q

\* the call of handler p ends: c is the call with its outcome
Finish(p, c) ==
    /\ upc' = [ upc EXCEPT ![p] = "idle" ]
    /\ call' = [ call EXCEPT ![p] = NoCall ]
    /\ ret' = [ c EXCEPT !.usage = NoRow, !.dirty = {} ]

(***************************************************************************)
(* record_monthly_grounding_usage                                          *)
(***************************************************************************)
\* lines 66-80: read the row of the period; create it or add the deltas
ReadModify(c) ==
    LET loaded == QueryFirst(table, c.period_start)
        usage == IF IsNone(loaded)
                 THEN NewUsage(c.period_start, c.grounded_delta, c.query_delta)
                 ELSE ApplyDelta(loaded, c.grounded_delta, c.query_delta)
    IN  [ c EXCEPT !.usage = usage,
                   !.dirty = IF IsNone(loaded) THEN Columns
                                               ELSE DirtyColumns(loaded, usage) ]

\* variant: the call goes on to the write with nothing to record
NothingToRecord_Never(grounded_delta, query_delta) == FALSE

\* line 62: grounded_delta == 0 and query_delta == 0
NothingToRecord(grounded_delta, query_delta) == grounded_delta = 0 /\ query_delta = 0

\* lines 58-63: the deltas, the period, and the early return of None;
\* lines 65-80: the read-modify of the first attempt
RecordStart(p, grounding_attached, web_search_query_count) ==
    /\   LET now == Instants[clock]
             grounded_delta == IF grounding_attached THEN 1 ELSE 0
             query_delta == Max(0, web_search_query_count)
             period_start == get_utc_month_start(now)
             c == [ op |-> "record",
                    outcome |-> "running",
                    grounded_delta |-> grounded_delta,
                    query_delta |-> query_delta,
                    period_start |-> period_start,
                    attempt |-> 0,
                    usage |-> NoRow,
                    dirty |-> {},
                    rivals |-> 0,
                    applied |-> 0,
                    result |-> NoResult ]
         IN  IF NothingToRecord(grounded_delta, query_delta)
             THEN /\ Finish(p, [ c EXCEPT !.outcome = "returned" ])
                  /\ UNCHANGED calledFor
             ELSE /\ call' = [ call EXCEPT ![p] = ReadModify(c) ]
                  /\ upc' = [ upc EXCEPT ![p] = "rec_commit" ]
                  /\ calledFor' = [ calledFor EXCEPT ![period_start] =
                         [ calls |-> @.calls + 1,
                           grounded |-> @.grounded + grounded_delta,
                           queries |-> @.queries + query_delta ] ]
                  /\ UNCHANGED ret
    /\ started' = started + 1
    /\ UNCHANGED << table, injected, alertLog, clock >>

\* a call of record_monthly_grounding_usage with any arguments
RecordCall(p) ==
    /\ FirstFree(p)
    /\ started < MaxCalls
    /\ \E grounding_attached \in BOOLEAN, web_search_query_count \in QueryCounts :
         RecordStart(p, grounding_attached, web_search_query_count)

\* lines 65-80, second iteration: the read-modify of the retry
RecordRetryRead(p) ==
    /\ upc[p] = "rec_read"
    /\ call' = [ call EXCEPT ![p] = ReadModify(call[p]) ]
    /\ upc' = [ upc EXCEPT ![p] = "rec_commit" ]
    /\ UNCHANGED << table, ret, started, injected, calledFor, alertLog, clock >>

\* lines 83-90: the commit succeeds and the snapshot is returned
RecordCommit(p) ==
    /\ upc[p] = "rec_commit"
    /\ LET c == call[p]
           u == c.usage
       IN  /\ IF u.id = 0
              THEN /\ ~ UniqueViolation(table, u)
                   /\ table' = InsertRow(table, u)
              ELSE table' = UpdateRow(table, u, c.dirty)
           /\ Finish(p, [ c EXCEPT !.outcome = "returned",
                                   !.applied = @ + 1,
                                   !.result = Snapshot(u, c.grounded_delta, c.query_delta) ])
    /\ UNCHANGED << started, injected, calledFor, alertLog, clock >>

\* variant: the loop allows a third attempt
AnotherAttempt_Third(attempts_made) == attempts_made < 3

\* line 65: for _ in range(2) has another iteration after attempts_made of them
AnotherAttempt(attempts_made) == attempts_made < 2

\* after the rollback of lines 91-92: the next attempt, or the final read
AfterRollback(p, rival) ==
    /\ call' = [ call EXCEPT ![p].rivals = @ + (IF rival THEN 1 ELSE 0),
                             ![p].attempt = @ + 1,
                             ![p].usage = NoRow,
                             ![p].dirty = {} ]
    /\ upc' = [ upc EXCEPT ![p] = IF AnotherAttempt(call[p].attempt + 1) THEN "rec_read"
                                          ELSE "rec_final" ]

\* lines 83, 91-92: the INSERT meets the row a concurrent creator committed
RecordCommitConflict(p) ==
    /\ upc[p] = "rec_commit"
    /\ call[p].usage.id = 0
    /\ UniqueViolation(table, call[p].usage)
    /\ AfterRollback(p, TRUE)
    /\ UNCHANGED << table, ret, started, injected, calledFor, alertLog, clock >>

\* lines 83, 91-92 with the commit of tests/test_llm_grounding_usage.py
\* (flaky_commit): the commit raises IntegrityError although no row is in its way
RecordCommitFault(p) ==
    /\ upc[p] = "rec_commit"
    /\ injected < MaxFaults
    /\ ~ (call[p].usage.id = 0 /\ UniqueViolation(table, call[p].usage))
    /\ injected' = injected + 1
    /\ AfterRollback(p, FALSE)
    /\ UNCHANGED << table, ret, started, calledFor, alertLog, clock >>

\* lines 94-108: the final read after two conflicts
RecordFinalRead(p) ==
    /\ upc[p] = "rec_final"
    /\ LET c == call[p]
           usage == QueryFirst(table, c.period_start)
       IN  IF IsNone(usage)
           THEN Finish(p, [ c EXCEPT !.outcome = "raised" ])
           ELSE Finish(p, [ c EXCEPT !.outcome = "returned",
                                     !.result = Snapshot(usage, c.grounded_delta,
                                                         c.query_delta) ])
    /\ UNCHANGED << table, started, injected, calledFor, alertLog, clock >>

(***************************************************************************)
(* maybe_record_threshold_alerts                                           *)
(***************************************************************************)
\* variant: the session is committed whether or not a threshold triggered
CommitNeeded_Always(triggered) == TRUE

\* line 194: if triggered
CommitNeeded(triggered) == triggered # << >>

\* lines 142-192: parse the inputs, read the row, set the unset timestamps of
\* the thresholds the count has reached; lines 194, 197-209 when none was set
AlertsCall(p) ==
    /\ FirstFree(p)
    /\ started < MaxCalls
    /\ \E period_start \in PeriodsUpTo(clock), grounded_prompts_count \in AlertCounts,
          soft_cap \in SoftCapValues, hard_cap \in HardCapValues :
         LET now == Instants[clock]
             soft_limit == parse_cap(soft_cap)
             hard_limit == parse_cap(hard_cap)
             usage == QueryFirst(table, period_start)
             reached == { t \in Thresholds :
                            LET limit == IF t = "soft_cap" THEN soft_limit ELSE hard_limit
                            IN  limit # NoValue /\ grounded_prompts_count >= limit }
             c == [ op |-> "alerts", outcome |-> "running",
                    period_start |-> period_start,
                    seen |-> NoSeen, reached |-> reached, usage |-> NoRow,
                    dirty |-> {}, triggered |-> << >> ]
         IN  IF IsNone(usage)
             THEN Finish(p, [ c EXCEPT !.outcome = "returned" ])
             ELSE LET soft == ThresholdFires(soft_limit, grounded_prompts_count,
                                             usage.soft_cap_alert_sent_at)
                      hard == ThresholdFires(hard_limit, grounded_prompts_count,
                                             usage.hard_cap_alert_sent_at)
                      u1 == IF soft
                            THEN [ usage EXCEPT !.soft_cap_alert_sent_at = Stamp(now) ]
                            ELSE usage
                      u2 == IF hard
                            THEN [ u1 EXCEPT !.hard_cap_alert_sent_at = Stamp(now) ]
                            ELSE u1
                      triggered == (IF soft THEN << "soft_cap" >> ELSE << >>)
                                   \o (IF hard THEN << "hard_cap" >> ELSE << >>)
                      d == [ c EXCEPT
                               !.seen = [ soft_cap |-> usage.soft_cap_alert_sent_at,
                                          hard_cap |-> usage.hard_cap_alert_sent_at ],
                               !.usage = u2,
                               !.dirty = DirtyColumns(usage, u2),
                               !.triggered = triggered ]
                  IN  IF CommitNeeded(triggered)
                      THEN /\ call' = [ call EXCEPT ![p] = d ]
                           /\ upc' = [ upc EXCEPT ![p] = "al_commit" ]
                           /\ UNCHANGED ret
                      ELSE /\ upc' = [ upc EXCEPT ![p] = "idle" ]
                           /\ call' = [ call EXCEPT ![p] = NoCall ]
                           /\ ret' = [ d EXCEPT !.outcome = "returned", !.usage = NoRow ]
    /\ started' = started + 1
    /\ UNCHANGED << table, injected, calledFor, alertLog, clock >>

\* lines 194-209: commit the timestamps that were set and return
AlertsCommit(p) ==
    /\ upc[p] = "al_commit"
    /\ LET c == call[p]
       IN  /\ table' = UpdateRow(table, c.usage, c.dirty)
           /\ alertLog' = [ alertLog EXCEPT ![c.period_start] =
                  [ t \in Thresholds |->
                      [ reports |-> @[t].reports + (IF InSeq(t, c.triggered) THEN 1 ELSE 0),
                        writes |-> @[t].writes + (IF ColumnOf(t) \in c.dirty THEN 1 ELSE 0) ] ] ]
           /\ upc' = [ upc EXCEPT ![p] = "idle" ]
           /\ call' = [ call EXCEPT ![p] = NoCall ]
           /\ ret' = [ c EXCEPT !.outcome = "returned", !.usage = NoRow ]
    /\ UNCHANGED << started, injected, calledFor, clock >>

\* time passes: datetime.now(timezone.utc) of lines 15 and 175 never goes back
Tick ==
    /\ clock < Len(Instants)
    /\ clock' = clock + 1
    /\ UNCHANGED << table, upc, call, ret, started, injected, calledFor, alertLog >>

UsageNext ==
    \/ Tick
    \/ \E p \in Procs :
        \/ RecordCall(p)
        \/ RecordRetryRead(p)
        \/ RecordCommit(p)
        \/ RecordCommitConflict(p)
        \/ RecordCommitFault(p)
        \/ RecordFinalRead(p)
        \/ AlertsCall(p)
        \/ AlertsCommit(p)

(***************************************************************************)
(* The tool-call loop of run_agent (api/llm/agent.py).                     *)
(***************************************************************************)
MaxIterations == 3     \* largest max_iterations a run is started with
MaxRepeats == 2        \* largest max_repeated_function_calls a run is started with

\* the position of an argument key in the order json.dumps(sort_keys=True) uses
KeyRank(key) ==
    CASE key = "max_results" -> 1
      [] key = "query" -> 2
      [] key = "surname" -> 3

\* function calls the model may ask for: a name and the arguments in the order given
tcOlson == [ name |-> "filter_people", args |-> << << "surname", "Olson" >> >> ]
tcBradford == [ name |-> "filter_people", args |-> << << "surname", "Bradford" >> >> ]
tcSearch == [ name |-> "search_genealogy_database",
              args |-> << << "max_results", "20" >>, << "query", "Mayflower pilot" >> >> ]
tcSearchSwapped == [ name |-> "search_genealogy_database",
              args |-> << << "query", "Mayflower pilot" >>, << "max_results", "20" >> >> ]

FunctionCallPart(tc) == [ function_call |-> tc ]
NoFunctionCall == [ name |-> "", args |-> << >> ]     \* part.function_call is None
TextPart == [ function_call |-> NoFunctionCall ]
HasCall(part) == part.function_call # NoFunctionCall

\* the content parts of the responses with function calls the model may give
Rounds ==
    { << FunctionCallPart(tcOlson) >>,
      << TextPart, FunctionCallPart(tcSearch) >>,
      << FunctionCallPart(tcSearchSwapped) >>,
      << FunctionCallPart(tcOlson), FunctionCallPart(tcBradford) >>,
      << FunctionCallPart(tcBradford), FunctionCallPart(tcOlson) >>,
      << FunctionCallPart(tcOlson), FunctionCallPart(tcOlson) >> }

\* a response: no candidates, or the parts of the first candidate's content
NoCandidates == [ candidates |-> FALSE, parts |-> << >> ]
EmptyParts == [ candidates |-> TRUE, parts |-> << >> ]
TextResponse == [ candidates |-> TRUE, parts |-> << TextPart >> ]
\* a text part that states something about the contents of the tree
TreeClaimPart ==
    [ function_call |-> NoFunctionCall, text |-> "No, that person is not in your tree." ]
TreeClaimResponse == [ candidates |-> TRUE, parts |-> << TreeClaimPart >> ]
RoundResponse(r) == [ candidates |-> TRUE, parts |-> r ]
Responses ==
    { NoCandidates, EmptyParts, TextResponse, TreeClaimResponse }
        \cup { RoundResponse(r) : r \in Rounds }

ToolResults == { "tool-result", "other-result" }

\* the arguments sorted by key, as json.dumps(tool_args, sort_keys=True) writes them
RECURSIVE SortArgs(_)
SortArgs(args) ==
    IF Len(args) = 0 THEN << >>
    ELSE LET i == CHOOSE j \in 1..Len(args) :
                      \A k \in 1..Len(args) : KeyRank(args[j][1]) <= KeyRank(args[k][1])
             rest == [ k \in 1..(Len(args) - 1) |-> IF k < i THEN args[k] ELSE args[k + 1] ]
         IN  << args[i] >> \o SortArgs(rest)

\* variant: the arguments are written in the order the model gave them
Signature_Unsorted(tc) == << tc.name, tc.args >>

\* line 815 / 837: f"{tool_name}:{json.dumps(tool_args, sort_keys=True, default=str)}"
Signature(tc) == << tc.name, SortArgs(tc.args) >>

\* lines 808-816: the signatures of the function calls of a response, in order
RECURSIVE SignaturesOf(_)
SignaturesOf(parts) ==
    IF parts = << >> THEN << >>
    ELSE (IF HasCall(Head(parts)) THEN << Signature(Head(parts).function_call) >> ELSE << >>)
             \o SignaturesOf(Tail(parts))

\* lines 800-803: any(part.function_call is not None for part in parts)
AnyFunctionCall(parts) == \E i \in 1..Len(parts) : HasCall(parts[i])

\* variant: a round is never recognised as a repeat
SameAsPrevious_Never(previous, signatures) == FALSE

\* line 818: this round repeats the previous one
NoSignatures == [ none |-> TRUE, list |-> << >> ]     \* previous_signatures is None
SomeSignatures(list) == [ none |-> FALSE, list |-> list ]
SameAsPrevious(previous, signatures) == ~ previous.none /\ signatures = previous.list

\* variant: a round that differs leaves the counter as it is
RepeatedRounds_NoReset(previous, signatures, rounds) ==
    IF SameAsPrevious(previous, signatures) THEN rounds + 1 ELSE rounds

\* lines 818-821: one more repeat, or the counter starts again at zero
RepeatedRounds(previous, signatures, rounds) ==
    IF SameAsPrevious(previous, signatures) THEN rounds + 1 ELSE 0

\* variant: the cache is never consulted
InCache_Never(cache, signature) == FALSE

\* line 839: signature in tool_result_cache
InCache(cache, signature) == \E e \in cache : e.signature = signature
CachedResult(cache, signature) == (CHOOSE e \in cache : e.signature = signature).result

\* variant: the loop runs one iteration too many
HasNextIteration_OneMore(iteration, max_iterations) == iteration + 1 < max_iterations + 1

\* line 782: range(max_iterations) has another value after iteration
HasNextIteration(iteration, max_iterations) == iteration + 1 < max_iterations

\* variant: only loop-breaking leads to the final call
NeedsSynthesis_OnlyForced(forced, iteration, max_iterations, has_call) == forced

\* line 856: forced_synthesis or (iteration == max_iterations - 1 and has_function_call)
NeedsSynthesis(forced, iteration, max_iterations, has_call) ==
    forced \/ (iteration = max_iterations - 1 /\ has_call)

VARIABLES
    apc,                        \* position of the run
    max_iterations,             \* after max(1, max_iterations), line 770
    max_repeated_function_calls,\* after max(1, ...), line 771
    grounding_enabled,
    iteration,
    has_function_call,
    forced_synthesis,
    previous_signatures,
    repeated_signature_rounds,
    tool_result_cache,          \* set of [signature, result]
    contents,                   \* the conversation sent with the next model call
    response,                   \* the last response, with the kind of call it answers
    pending,                    \* function-call parts of the round still to execute
    function_response_parts,
    requests,                   \* history: the model calls made, in order
    dispatched                  \* history: the tool calls handed to execute_tool_call

agentVars == << apc, max_iterations, max_repeated_function_calls, grounding_enabled,
                iteration, has_function_call, forced_synthesis, previous_signatures,
                repeated_signature_rounds, tool_result_cache, contents, response,
                pending, function_response_parts, requests, dispatched >>

UserText(text) == [ role |-> "user", text |-> text ]
Prompt == UserText("prompt")
SynthesisInstruction == UserText("Please provide your answer now")
NoResponse == [ source |-> "none", candidates |-> FALSE, parts |-> << >> ]

\* lines 749-773: the state of a run before its first model call
AgentStart(max_iter, max_rep, grounding) ==
    /\ apc = "model_call"
    /\ max_iterations = Max(1, max_iter)
    /\ max_repeated_function_calls = Max(1, max_rep)
    /\ grounding_enabled = grounding
    /\ iteration = 0
    /\ has_function_call = FALSE
    /\ forced_synthesis = FALSE
    /\ previous_signatures = NoSignatures
    /\ repeated_signature_rounds = 0
    /\ tool_result_cache = {}
    /\ contents = << Prompt >>
    /\ response = NoResponse
    /\ pending = << >>
    /\ function_response_parts = << >>
    /\ requests = << >>
    /\ dispatched = << >>

AgentInit ==
    \E max_iter \in 0..MaxIterations, max_rep \in 0..MaxRepeats, grounding \in BOOLEAN :
        AgentStart(max_iter, max_rep, grounding)

\* generate_content raised instead of answering
Raised == [ candidates |-> FALSE, parts |-> << >>, raised |-> TRUE ]
Answer(r) == [ candidates |-> r.candidates, parts |-> r.parts, raised |-> FALSE ]

\* variant: the web search is sent with every model call
Request_AlwaysSearch(with_tools, sent, answer) ==
    [ tools |-> with_tools,
      google_search |-> TRUE,
      contents |-> sent,
      answer |-> answer ]

\* a model call: its tools (lines 755-761, 785), its contents and its answer
Request(with_tools, sent, answer) ==
    [ tools |-> with_tools,
      google_search |-> with_tools /\ grounding_enabled,
      contents |-> sent,
      answer |-> answer ]

\* variant: the tool results take the place of the model's message
EndRound_Replaces(parts) ==
    /\ contents' = Append(SubSeq(contents, 1, Len(contents) - 1),
                          [ role |-> "user", parts |-> parts ])
    /\ IF HasNextIteration(iteration, max_iterations)
       THEN /\ iteration' = iteration + 1
            /\ apc' = "model_call"
       ELSE /\ iteration' = iteration
            /\ apc' = "final"

\* lines 853 and 782: the tool results join the conversation; next iteration or loop end
EndRound(parts) ==
    /\ contents' = Append(contents, [ role |-> "user", parts |-> parts ])
    /\ IF HasNextIteration(iteration, max_iterations)
       THEN /\ iteration' = iteration + 1
            /\ apc' = "model_call"
       ELSE /\ iteration' = iteration
            /\ apc' = "final"

\* lines 783-829: one model call with tools and what the loop does with the response
AgentModelCall ==
    /\ apc = "model_call"
    /\ \E r \in Responses :
         LET parts == r.parts
             signatures == SignaturesOf(parts)
             repeated == RepeatedRounds(previous_signatures, signatures,
                                        repeated_signature_rounds)
         IN  /\ requests' = Append(requests, Request(TRUE, contents, Answer(r)))
             /\ response' = [ source |-> "tools", candidates |-> r.candidates,
                              parts |-> parts ]
             /\ IF ~ r.candidates \/ parts = << >>
                THEN /\ apc' = "final"
                     /\ UNCHANGED << has_function_call, forced_synthesis,
                                     previous_signatures, repeated_signature_rounds,
                                     contents, pending >>
                ELSE IF ~ AnyFunctionCall(parts)
                THEN /\ has_function_call' = FALSE
                     /\ apc' = "final"
                     /\ UNCHANGED << forced_synthesis, previous_signatures,
                                     repeated_signature_rounds, contents, pending >>
                ELSE /\ has_function_call' = TRUE
                     /\ repeated_signature_rounds' = repeated
                     /\ previous_signatures' = SomeSignatures(signatures)
                     /\ IF repeated >= max_repeated_function_calls
                        THEN /\ forced_synthesis' = TRUE
                             /\ apc' = "final"
                             /\ UNCHANGED << contents, pending >>
                        ELSE /\ contents' = Append(contents,
                                     [ role |-> "model", parts |-> parts ])
                             /\ pending' = SelectSeq(parts, HasCall)
                             /\ apc' = "execute"
                             /\ UNCHANGED forced_synthesis
    /\ UNCHANGED << max_iterations, max_repeated_function_calls, grounding_enabled,
                    iteration, tool_result_cache, function_response_parts, dispatched >>

\* line 790: generate_content raises after its retries; run_agent does not catch it
AgentModelCallRaises ==
    /\ apc = "model_call"
    /\ requests' = Append(requests, Request(TRUE, contents, Raised))
    /\ apc' = "raised"
    /\ UNCHANGED << max_iterations, max_repeated_function_calls, grounding_enabled,
                    iteration, has_function_call, forced_synthesis, previous_signatures,
                    repeated_signature_rounds, tool_result_cache, contents, response,
                    pending, function_response_parts, dispatched >>

\* the function response part of lines 845-850, then the next part or the end of the round
AfterToolCall(tc, result) ==
    LET parts == Append(function_response_parts, [ name |-> tc.name, result |-> result ])
    IN  /\ pending' = Tail(pending)
        /\ IF Tail(pending) = << >>
           THEN /\ function_response_parts' = << >>
                /\ EndRound(parts)
           ELSE /\ function_response_parts' = parts
                /\ UNCHANGED << contents, iteration, apc >>

\* lines 833-843, cache miss: execute_tool_call is called and its result cached
AgentDispatch ==
    /\ apc = "execute"
    /\ LET tc == Head(pending).function_call
           signature == Signature(tc)
       IN  /\ ~ InCache(tool_result_cache, signature)
           /\ \E result \in ToolResults :
                /\ tool_result_cache' = tool_result_cache
                       \cup { [ signature |-> signature, result |-> result ] }
                /\ AfterToolCall(tc, result)
           /\ dispatched' = Append(dispatched, signature)
    /\ UNCHANGED << max_iterations, max_repeated_function_calls, grounding_enabled,
                    has_function_call, forced_synthesis, previous_signatures,
                    repeated_signature_rounds, response, requests >>

\* line 842: execute_tool_call raises; run_agent does not catch it
AgentDispatchRaises ==
    /\ apc = "execute"
    /\ LET signature == Signature(Head(pending).function_call)
       IN  /\ ~ InCache(tool_result_cache, signature)
           /\ dispatched' = Append(dispatched, signature)
    /\ apc' = "raised"
    /\ UNCHANGED << max_iterations, max_repeated_function_calls, grounding_enabled,
                    iteration, has_function_call, forced_synthesis, previous_signatures,
                    repeated_signature_rounds, tool_result_cache, contents, response,
                    pending, function_response_parts, requests >>

\* lines 833-840, cache hit: the stored result is used, no call of execute_tool_call
AgentCacheHit ==
    /\ apc = "execute"
    /\ LET tc == Head(pending).function_call
           signature == Signature(tc)
       IN  /\ InCache(tool_result_cache, signature)
           /\ AfterToolCall(tc, CachedResult(tool_result_cache, signature))
    /\ UNCHANGED << max_iterations, max_repeated_function_calls, grounding_enabled,
                    has_function_call, forced_synthesis, previous_signatures,
                    repeated_signature_rounds, tool_result_cache, response, requests,
                    dispatched >>

\* lines 856-878: the forced final call without tools, whose response is returned
AgentSynthesize ==
    /\ apc = "final"
    /\ NeedsSynthesis(forced_synthesis, iteration, max_iterations, has_function_call)
    /\ contents' = Append(contents, SynthesisInstruction)
    /\ \E r \in { TextResponse, NoCandidates } :
         /\ requests' = Append(requests, Request(FALSE, contents', Answer(r)))
         /\ response' = [ source |-> "synthesis", candidates |-> r.candidates,
                          parts |-> r.parts ]
    /\ apc' = "done"
    /\ UNCHANGED << max_iterations, max_repeated_function_calls, grounding_enabled,
                    iteration, has_function_call, forced_synthesis, previous_signatures,
                    repeated_signature_rounds, tool_result_cache, pending,
                    function_response_parts, dispatched >>

\* line 872: the final generate_content raises
AgentSynthesizeRaises ==
    /\ apc = "final"
    /\ NeedsSynthesis(forced_synthesis, iteration, max_iterations, has_function_call)
    /\ contents' = Append(contents, SynthesisInstruction)
    /\ requests' = Append(requests, Request(FALSE, contents', Raised))
    /\ apc' = "raised"
    /\ UNCHANGED << max_iterations, max_repeated_function_calls, grounding_enabled,
                    iteration, has_function_call, forced_synthesis, previous_signatures,
                    repeated_signature_rounds, tool_result_cache, response, pending,
                    function_response_parts, dispatched >>

\* lines 856, 878: no final call is needed; the last response is returned
AgentReturn ==
    /\ apc = "final"
    /\ ~ NeedsSynthesis(forced_synthesis, iteration, max_iterations, has_function_call)
    /\ apc' = "done"
    /\ UNCHANGED << max_iterations, max_repeated_function_calls, grounding_enabled,
                    iteration, has_function_call, forced_synthesis, previous_signatures,
                    repeated_signature_rounds, tool_result_cache, contents, response,
                    pending, function_response_parts, requests, dispatched >>

AgentNext ==
    \/ AgentModelCall
    \/ AgentModelCallRaises
    \/ AgentDispatch
    \/ AgentDispatchRaises
    \/ AgentCacheHit
    \/ AgentSynthesize
    \/ AgentSynthesizeRaises
    \/ AgentReturn

(***************************************************************************)
(* The grounding policy (api/llm/grounding_policy.py) and the request loop *)
(* that drives it (scripts/search_grounding_stage3_load_sim.py).  A text   *)
(* is a sequence of one-character strings.                                 *)
(***************************************************************************)
MaxRequests == 2       \* requests decided in one behaviour (total_requests)

UpperCase ==
    << "A", "B", "C", "D", "E", "F", "G", "H", "I", "J", "K", "L", "M",
       "N", "O", "P", "Q", "R", "S", "T", "U", "V", "W", "X", "Y", "Z" >>
LowerCase ==
    << "a", "b", "c", "d", "e", "f", "g", "h", "i", "j", "k", "l", "m",
       "n", "o", "p", "q", "r", "s", "t", "u", "v", "w", "x", "y", "z" >>
Digits == { "0", "1", "2", "3", "4", "5", "6", "7", "8", "9" }

IsUpper(c) == \E i \in 1..Len(UpperCase) : UpperCase[i] = c      \* [A-Z]
IsLower(c) == \E i \in 1..Len(LowerCase) : LowerCase[i] = c      \* [a-z]
IsWordChar(c) == IsUpper(c) \/ IsLower(c) \/ c \in Digits \/ c = "_"     \* \w
IsSpace(c) == c \in { " ", "\t", "\n", "\r" }

\* str.lower()
LowerChar(c) ==
    IF IsUpper(c) THEN LowerCase[CHOOSE i \in 1..Len(UpperCase) : UpperCase[i] = c] ELSE c
lower(text) == [ i \in 1..Len(text) |-> LowerChar(text[i]) ]

\* str.strip()
strip(text) ==
    LET kept == { i \in 1..Len(text) : ~ IsSpace(text[i]) }
    IN  IF kept = {} THEN << >>
        ELSE SubSeq(text, CHOOSE i \in kept : \A j \in kept : i <= j,
                          CHOOSE i \in kept : \A j \in kept : i >= j)

\* word in text
Contains(word, text) ==
    \E i \in 1..(Len(text) - Len(word) + 1) :
        \A j \in 1..Len(word) : text[i + j - 1] = word[j]

\* any(word in text for word in words)
ContainsAny(words, text) == \E word \in words : Contains(word, text)

\* \b between positions i and i + 1 of text (0 is before the first character)
WordBoundary(text, i) ==
    (i >= 1 /\ IsWordChar(text[i])) # (i + 1 <= Len(text) /\ IsWordChar(text[i + 1]))

\* the characters at positions from..to of text are all in [a-z]
AllLower(text, from, to) == \A x \in from..to : IsLower(text[x])

GENEALOGY_SCOPE_KEYWORDS ==
    { << "g", "e", "n", "e", "a", "l", "o", "g", "y" >>,
      << "f", "a", "m", "i", "l", "y", " ", "t", "r", "e", "e" >>,
      << "a", "n", "c", "e", "s", "t", "o", "r" >>,
      << "a", "n", "c", "e", "s", "t", "o", "r", "s" >>,
      << "d", "e", "s", "c", "e", "n", "d", "a", "n", "t" >>,
      << "d", "e", "s", "c", "e", "n", "d", "a", "n", "t", "s" >>,
      << "l", "i", "n", "e", "a", "g", "e" >>,
      << "s", "u", "r", "n", "a", "m", "e" >>,
      << "b", "i", "r", "t", "h" >>,
      << "d", "e", "a", "t", "h" >>,
      << "m", "a", "r", "r", "i", "a", "g", "e" >>,
      << "s", "p", "o", "u", "s", "e" >>,
      << "p", "a", "r", "e", "n", "t", "s" >>,
      << "p", "a", "r", "e", "n", "t" >>,
      << "c", "h", "i", "l", "d", "r", "e", "n" >>,
      << "c", "h", "i", "l", "d" >>,
      << "s", "i", "b", "l", "i", "n", "g" >>,
      << "g", "r", "a", "n", "d", "f", "a", "t", "h", "e", "r" >>,
      << "g", "r", "a", "n", "d", "m", "o", "t", "h", "e", "r" >>,
      << "g", "r", "a", "n", "d", "p", "a", "r", "e", "n", "t" >>,
      << "c", "e", "n", "s", "u", "s" >>,
      << "i", "m", "m", "i", "g", "r", "a", "t", "i", "o", "n" >>,
      << "e", "m", "i", "g", "r", "a", "t", "i", "o", "n" >>,
      << "m", "i", "g", "r", "a", "t", "i", "o", "n" >>,
      << "p", "a", "r", "i", "s", "h" >>,
      << "r", "e", "c", "o", "r", "d" >>,
      << "o", "b", "i", "t", "u", "a", "r", "y" >>,
      << "g", "r", "a", "v", "e" >>,
      << "c", "e", "m", "e", "t", "e", "r", "y" >>,
      << "o", "c", "c", "u", "p", "a", "t", "i", "o", "n" >>,
      << "t", "r", "e", "e" >> }

CONTEXT_GAP_KEYWORDS ==
    { << "h", "i", "s", "t", "o", "r", "i", "c", "a", "l", " ", "c", "o", "n", "t", "e", "x", "t" >>,
      << "c", "o", "n", "t", "e", "x", "t" >>,
      << "w", "h", "a", "t", " ", "w", "a", "s", " ", "l", "i", "f", "e", " ", "l", "i", "k", "e" >>,
      << "w", "h", "y", " ", "d", "i", "d" >>,
      << "w", "h", "y", " ", "w", "a", "s" >>,
      << "b", "e", "c", "a", "u", "s", "e" >>,
      << "m", "i", "g", "r", "a", "t", "i", "o", "n", " ", "p", "a", "t", "t", "e", "r", "n" >>,
      << "m", "i", "g", "r", "a", "t", "i", "o", "n", " ", "p", "a", "t", "t", "e", "r", "n", "s" >>,
      << "m", "o", "v", "e", "d", " ", "f", "r", "o", "m" >>,
      << "m", "o", "v", "e", "d", " ", "t", "o" >>,
      << "w", "a", "r" >>,
      << "f", "a", "m", "i", "n", "e" >>,
      << "p", "l", "a", "g", "u", "e" >>,
      << "e", "p", "i", "d", "e", "m", "i", "c" >>,
      << "e", "c", "o", "n", "o", "m", "i", "c" >>,
      << "i", "n", "d", "u", "s", "t", "r", "y" >>,
      << "o", "c", "c", "u", "p", "a", "t", "i", "o", "n", " ", "h", "i", "s", "t", "o", "r", "y" >>,
      << "p", "l", "a", "c", "e", " ", "n", "a", "m", "e", " ", "c", "h", "a", "n", "g", "e" >>,
      << "b", "o", "r", "d", "e", "r", " ", "c", "h", "a", "n", "g", "e" >>,
      << "h", "i", "s", "t", "o", "r", "y", " ", "o", "f" >> }

HIGH_CONFIDENCE_CONTEXT_GAP_KEYWORDS ==
    { << "h", "i", "s", "t", "o", "r", "i", "c", "a", "l", " ", "c", "o", "n", "t", "e", "x", "t" >>,
      << "w", "h", "a", "t", " ", "w", "a", "s", " ", "l", "i", "f", "e", " ", "l", "i", "k", "e" >>,
      << "w", "h", "y", " ", "d", "i", "d" >>,
      << "m", "i", "g", "r", "a", "t", "i", "o", "n", " ", "p", "a", "t", "t", "e", "r", "n" >>,
      << "m", "i", "g", "r", "a", "t", "i", "o", "n", " ", "p", "a", "t", "t", "e", "r", "n", "s" >>,
      << "m", "o", "v", "e", "d", " ", "f", "r", "o", "m" >>,
      << "m", "o", "v", "e", "d", " ", "t", "o" >>,
      << "p", "l", "a", "c", "e", " ", "n", "a", "m", "e", " ", "c", "h", "a", "n", "g", "e" >>,
      << "b", "o", "r", "d", "e", "r", " ", "c", "h", "a", "n", "g", "e" >> }

OUT_OF_SCOPE_HINTS ==
    { << "m", "o", "v", "i", "e" >>,
      << "f", "i", "l", "m" >>,
      << "r", "e", "v", "i", "e", "w", "s" >>,
      << "b", "o", "x", " ", "o", "f", "f", "i", "c", "e" >>,
      << "s", "p", "o", "r", "t", "s" >>,
      << "n", "f", "l" >>,
      << "n", "b", "a" >>,
      << "m", "l", "b" >>,
      << "n", "h", "l" >>,
      << "w", "e", "a", "t", "h", "e", "r" >>,
      << "f", "o", "r", "e", "c", "a", "s", "t" >>,
      << "s", "t", "o", "c", "k" >>,
      << "c", "r", "y", "p", "t", "o" >>,
      << "b", "i", "t", "c", "o", "i", "n" >>,
      << "r", "e", "c", "i", "p", "e" >>,
      << "r", "e", "s", "t", "a", "u", "r", "a", "n", "t" >>,
      << "g", "a", "m", "e" >>,
      << "v", "i", "d", "e", "o", " ", "g", "a", "m", "e" >>,
      << "p", "r", "o", "g", "r", "a", "m", "m", "i", "n", "g" >>,
      << "c", "o", "d", "e", " ", "b", "u", "g" >> }

\* line 110: re.search(r"\b[A-Z][a-z]+ [A-Z][a-z]+\b", query)
_looks_like_person_name(query) ==
    \E i \in 1..Len(query) :
        /\ WordBoundary(query, i - 1)
        /\ IsUpper(query[i])
        /\ \E k \in 1..(Len(query) - i) :
              /\ AllLower(query, i + 1, i + k)
              /\ i + k + 2 <= Len(query)
              /\ query[i + k + 1] = " "
              /\ IsUpper(query[i + k + 2])
              /\ \E m \in 1..(Len(query) - (i + k + 2)) :
                    /\ AllLower(query, i + k + 3, i + k + 2 + m)
                    /\ WordBoundary(query, i + k + 2 + m)

\* lines 113-124
_is_in_genealogy_scope(query) ==
    LET normalized == strip(lower(query))
        has_genealogy_keyword == ContainsAny(GENEALOGY_SCOPE_KEYWORDS, normalized)
        has_out_of_scope_hint == ContainsAny(OUT_OF_SCOPE_HINTS, normalized)
        has_person_name == _looks_like_person_name(query)
    IN  IF normalized = << >> THEN TRUE
        ELSE IF has_out_of_scope_hint /\ ~ has_genealogy_keyword /\ ~ has_person_name
        THEN FALSE
        ELSE TRUE

\* lines 127-131
_is_context_gap_query(query) ==
    LET normalized == strip(lower(query))
    IN  IF normalized = << >> THEN FALSE
        ELSE ContainsAny(CONTEXT_GAP_KEYWORDS, normalized)

\* variant: every context-gap query counts as high-confidence
_is_high_confidence_context_gap_query_AnyGap(query) == _is_context_gap_query(query)

\* lines 134-138
_is_high_confidence_context_gap_query(query) ==
    LET normalized == strip(lower(query))
    IN  IF normalized = << >> THEN FALSE
        ELSE ContainsAny(HIGH_CONFIDENCE_CONTEXT_GAP_KEYWORDS, normalized)

\* argument values: None, an int, or a text (for a cap: one int() rejects)
NoneValue == [ kind |-> "None", int |-> 0, text |-> << >> ]
IntValue(n) == [ kind |-> "int", int |-> n, text |-> << >> ]
TextValue(text) == [ kind |-> "str", int |-> 0, text |-> text ]

DigitChars == << "0", "1", "2", "3", "4", "5", "6", "7", "8", "9" >>
DigitValue(c) == (CHOOSE i \in 1..10 : DigitChars[i] = c) - 1

\* str(n) for an int n >= 0
RECURSIVE IntToText(_)
IntToText(n) ==
    IF n < 10 THEN << DigitChars[n + 1] >>
    ELSE IntToText(n \div 10) \o << DigitChars[(n % 10) + 1] >>

\* int(text) accepts the text: digits, after an optional sign
IsIntText(text) ==
    LET digits == IF text # << >> /\ Head(text) = "-" THEN Tail(text) ELSE text
    IN  digits # << >> /\ \A i \in 1..Len(digits) : digits[i] \in Digits

\* int(text) for a text of digits
RECURSIVE DigitsToInt(_)
DigitsToInt(digits) ==
    IF digits = << >> THEN 0
    ELSE 10 * DigitsToInt(SubSeq(digits, 1, Len(digits) - 1))
             + DigitValue(digits[Len(digits)])

TextToInt(text) ==
    IF Head(text) = "-" THEN 0 - DigitsToInt(Tail(text)) ELSE DigitsToInt(text)

\* int(value) of lines 144-147 and 57-60 raises: None, or a text int() rejects
IntRaises(value) ==
    \/ value.kind = "None"
    \/ value.kind = "str" /\ ~ IsIntText(strip(value.text))

\* int(value) when it does not raise
IntOf(value) == IF value.kind = "int" THEN value.int ELSE TextToInt(strip(value.text))

\* the result of _normalize_limit: None, or an int
NoLimit == [ none |-> TRUE, limit |-> 0 ]
SomeLimit(n) == [ none |-> FALSE, limit |-> n ]

\* variant: every number is a limit, zero and the negative ones too
_normalize_limit_AnyInt(value) ==
    IF IntRaises(value) THEN NoLimit
    ELSE SomeLimit(IntOf(value))

\* lines 141-150: None, or the positive int
_normalize_limit(value) ==
    IF IntRaises(value) THEN NoLimit
    ELSE IF IntOf(value) <= 0 THEN NoLimit
    ELSE SomeLimit(IntOf(value))

mode_off == << "o", "f", "f" >>
mode_auto == << "a", "u", "t", "o" >>
mode_on == << "o", "n" >>
VALID_SEARCH_GROUNDING_MODES == { mode_off, mode_auto, mode_on }

\* lines 153-158: str(raw_mode or "auto").strip().lower()
normalize_search_grounding_mode(raw_mode) ==
    LET given == IF raw_mode.kind = "None" \/ raw_mode.text = << >>
                 THEN mode_auto ELSE raw_mode.text
        mode == lower(strip(given))
    IN  IF mode \notin VALID_SEARCH_GROUNDING_MODES THEN mode_auto ELSE mode

OUT_OF_SCOPE_REFUSAL_MESSAGE ==
    "I can only help with genealogy and family-history questions."
NoMessage == "None"    \* refusal_message is None

\* the dict the function returns
Decision(mode, attached, reason, refuse, message) ==
    [ mode |-> mode,
      grounding_attached |-> attached,
      decision_reason |-> reason,
      should_refuse |-> refuse,
      refusal_message |-> message ]

\* variant: the refusal leaves grounding attached
Refusal_Attached(mode) ==
    Decision(mode, TRUE, "scope_out", TRUE, OUT_OF_SCOPE_REFUSAL_MESSAGE)

\* lines 174-180
Refusal(mode) ==
    Decision(mode, FALSE, "scope_out", TRUE, OUT_OF_SCOPE_REFUSAL_MESSAGE)

\* variant: the limit blocks only once the count is above it
ReachedLimit_Above(limit, count) == ~ limit.none /\ count > limit.limit

\* lines 200-203, 213-216, 226-229: limit is not None and int(count) >= limit
ReachedLimit(limit, count) == ~ limit.none /\ count >= limit.limit

\* variant: a query the tree answers still gets grounding attached
TreeSufficient_Attached(mode) ==
    Decision(mode, TRUE, "tree_sufficient", FALSE, NoMessage)

\* lines 241-243
TreeSufficient(mode) ==
    Decision(mode, FALSE, "tree_sufficient", FALSE, NoMessage)

\* variant: the hard cap is consulted before the free tier limit
AutoDecision_HardFirst(mode, query, count, free_tier_limit, soft_cap, hard_cap) ==
    LET free_limit == _normalize_limit(free_tier_limit)
        hard_limit == _normalize_limit(hard_cap)
        soft_limit == _normalize_limit(soft_cap)
        in_soft_tightening == ReachedLimit(soft_limit, count)
    IN  IF ReachedLimit(hard_limit, count)
        THEN Decision(mode, FALSE, "cap_blocked_hard", FALSE, NoMessage)
        ELSE IF ReachedLimit(free_limit, count)
        THEN Decision(mode, FALSE, "cap_blocked_free_tier", FALSE, NoMessage)
        ELSE IF _is_context_gap_query(query)
        THEN IF in_soft_tightening /\ ~ _is_high_confidence_context_gap_query(query)
             THEN Decision(mode, FALSE, "soft_cap_tightened", FALSE, NoMessage)
             ELSE IF in_soft_tightening
             THEN Decision(mode, TRUE, "context_gap_soft_cap", FALSE, NoMessage)
             ELSE Decision(mode, TRUE, "context_gap", FALSE, NoMessage)
        ELSE TreeSufficient(mode)

\* lines 199-251: the decision in auto mode for a query in scope
AutoDecision(mode, query, count, free_tier_limit, soft_cap, hard_cap) ==
    LET free_limit == _normalize_limit(free_tier_limit)
        hard_limit == _normalize_limit(hard_cap)
        soft_limit == _normalize_limit(soft_cap)
        in_soft_tightening == ReachedLimit(soft_limit, count)
    IN  IF ReachedLimit(free_limit, count)
        THEN Decision(mode, FALSE, "cap_blocked_free_tier", FALSE, NoMessage)
        ELSE IF ReachedLimit(hard_limit, count)
        THEN Decision(mode, FALSE, "cap_blocked_hard", FALSE, NoMessage)
        ELSE IF _is_context_gap_query(query)
        THEN IF in_soft_tightening /\ ~ _is_high_confidence_context_gap_query(query)
             THEN Decision(mode, FALSE, "soft_cap_tightened", FALSE, NoMessage)
             ELSE IF in_soft_tightening
             THEN Decision(mode, TRUE, "context_gap_soft_cap", FALSE, NoMessage)
             ELSE Decision(mode, TRUE, "context_gap", FALSE, NoMessage)
        ELSE TreeSufficient(mode)

\* variant: the caps are consulted before the mode
InScopeDecision_CapsFirst(mode, query, count, free_tier_limit, soft_cap, hard_cap) ==
    LET auto == AutoDecision(mode, query, count, free_tier_limit, soft_cap, hard_cap)
    IN  IF auto.decision_reason \in { "cap_blocked_free_tier", "cap_blocked_hard" }
        THEN auto
        ELSE IF mode = mode_off THEN Decision(mode, FALSE, "mode_off", FALSE, NoMessage)
        ELSE IF mode = mode_on THEN Decision(mode, TRUE, "mode_on", FALSE, NoMessage)
        ELSE auto

\* lines 182-251: the decision for a query in scope
InScopeDecision(mode, query, count, free_tier_limit, soft_cap, hard_cap) ==
    IF mode = mode_off THEN Decision(mode, FALSE, "mode_off", FALSE, NoMessage)
    ELSE IF mode = mode_on THEN Decision(mode, TRUE, "mode_on", FALSE, NoMessage)
    ELSE AutoDecision(mode, query, count, free_tier_limit, soft_cap, hard_cap)

\* variant: the mode is looked at before the scope
decide_chat_grounding_ModeFirst(raw_mode, query, count, free_tier_limit, soft_cap, hard_cap) ==
    LET mode == normalize_search_grounding_mode(raw_mode)
    IN  IF mode # mode_auto
        THEN InScopeDecision(mode, query, count, free_tier_limit, soft_cap, hard_cap)
        ELSE IF ~ _is_in_genealogy_scope(query) THEN Refusal(mode)
        ELSE InScopeDecision(mode, query, count, free_tier_limit, soft_cap, hard_cap)

\* lines 161-251
decide_chat_grounding(raw_mode, query, count, free_tier_limit, soft_cap, hard_cap) ==
    LET mode == normalize_search_grounding_mode(raw_mode)
        in_scope == _is_in_genealogy_scope(query)
    IN  IF ~ in_scope THEN Refusal(mode)
        ELSE InScopeDecision(mode, query, count, free_tier_limit, soft_cap, hard_cap)

qAncestors ==
    << "T", "e", "l", "l", " ", "m", "e", " ", "a", "b", "o", "u", "t", " ", "m", "y", " ",
       "a", "n", "c", "e", "s", "t", "o", "r", "s" >>
qPredator ==
    << "D", "i", "d", " ", "P", "r", "e", "d", "a", "t", "o", "r", " ", "B", "a", "d", "l",
       "a", "n", "d", "s", " ", "g", "e", "t", " ", "g", "o", "o", "d", " ", "m", "o", "v",
       "i", "e", " ", "r", "e", "v", "i", "e", "w", "s", "?" >>
qWeather ==
    << "w", "h", "a", "t", " ", "i", "s", " ", "t", "h", "e", " ", "w", "e", "a", "t", "h",
       "e", "r", " ", "f", "o", "r", "e", "c", "a", "s", "t", " ", "f", "o", "r", " ", "t",
       "o", "m", "o", "r", "r", "o", "w", "?" >>
qMovieTree ==
    << "i", "s", " ", "t", "h", "e", "r", "e", " ", "a", " ", "m", "o", "v", "i", "e", " ",
       "a", "b", "o", "u", "t", " ", "m", "y", " ", "f", "a", "m", "i", "l", "y", " ", "t",
       "r", "e", "e", "?" >>
qLifeLike ==
    << "w", "h", "a", "t", " ", "w", "a", "s", " ", "l", "i", "f", "e", " ", "l", "i", "k",
       "e", " ", "i", "n", " ", "t", "h", "i", "s", " ", "p", "l", "a", "c", "e", " ", "f",
       "o", "r", " ", "t", "h", "i", "s", " ", "m", "i", "g", "r", "a", "t", "i", "o", "n",
       "?" >>
qContext ==
    << "G", "i", "v", "e", " ", "c", "o", "n", "t", "e", "x", "t", " ", "f", "o", "r", " ",
       "t", "h", "i", "s", " ", "f", "a", "m", "i", "l", "y", " ", "b", "r", "a", "n", "c",
       "h" >>
qBlank ==
    << " ", " " >>
qGameName ==
    << "W", "h", "i", "c", "h", " ", "g", "a", "m", "e", " ", "d", "i", "d", " ", "J", "o",
       "h", "n", " ", "S", "m", "i", "t", "h", " ", "p", "l", "a", "y", "?" >>

\* the queries a request may carry
Queries == { qAncestors, qPredator, qWeather, qMovieTree, qLifeLike, qContext, qBlank,
             qGameName }
RawModes ==
    { NoneValue, TextValue(mode_off), TextValue(mode_auto),
      TextValue(<< " ", "O", "N", " " >>), TextValue(<< "n", "o", "n", "s", "e", "n", "s", "e" >>) }
StartCounts == { 0, 3999, 4999, 5001 }
FreeTierLimits == { NoneValue, IntValue(5000), IntValue(100000) }
SoftCaps == { NoneValue, IntValue(4000), TextValue(<< "b", "a", "d" >>) }
HardCaps == { NoneValue, IntValue(5000), IntValue(0) }
\* caps given as zero, as a negative number, as a text that is no number
UnsetCaps == { IntValue(0), IntValue(-1), TextValue(<< "b", "a", "d" >>) }
\* the counts of test_threshold_crossing_is_deterministic and those between them
ThresholdCounts == 3999..5001

VARIABLES
    raw_mode,                   \* the arguments of decide_chat_grounding
    query,
    free_tier_limit,
    soft_cap,
    hard_cap,
    grounded_prompts_count,     \* the count the next request reads
    request_index,              \* requests decided so far
    decision,                   \* the decision of the last request
    count_before                \* the count the last request read

policyVars == << raw_mode, query, free_tier_limit, soft_cap, hard_cap,
                 grounded_prompts_count, request_index, decision, count_before >>

NoDecision == Decision(<< >>, FALSE, "none", FALSE, NoMessage)

\* the state before the first request
PolicyStart(m, q, count, free, soft, hard) ==
    /\ raw_mode = m
    /\ query = q
    /\ free_tier_limit = free
    /\ soft_cap = soft
    /\ hard_cap = hard
    /\ grounded_prompts_count = count
    /\ request_index = 0
    /\ decision = NoDecision
    /\ count_before = 0

PolicyIdle ==
    PolicyStart(NoneValue, << >>, 0, NoneValue, NoneValue, NoneValue)

PolicyInit ==
    \/ \E m \in RawModes, q \in Queries, count \in StartCounts,
          free \in FreeTierLimits, soft \in SoftCaps, hard \in HardCaps :
            PolicyStart(m, q, count, free, soft, hard)
    \/ \E count \in ThresholdCounts :
            PolicyStart(TextValue(mode_auto), qLifeLike, count,
                        IntValue(100000), IntValue(4000), IntValue(5000))
    \/ \E q \in { qLifeLike, qContext }, count \in { 0, 5001 },
          free \in UnsetCaps, soft \in UnsetCaps, hard \in UnsetCaps :
            PolicyStart(TextValue(mode_auto), q, count, free, soft, hard)

\* variant: every request is counted, attached or not
RequestStep_AlwaysCounts(total_requests) ==
    /\ request_index < total_requests
    /\ LET d == decide_chat_grounding(raw_mode, query, grounded_prompts_count,
                                      free_tier_limit, soft_cap, hard_cap)
       IN  /\ decision' = d
           /\ count_before' = grounded_prompts_count
           /\ grounded_prompts_count' = grounded_prompts_count + 1
    /\ request_index' = request_index + 1
    /\ UNCHANGED << raw_mode, query, free_tier_limit, soft_cap, hard_cap >>

\* one request: the decision for the current count; the count grows by one
\* when grounding is attached
RequestStep(total_requests) ==
    /\ request_index < total_requests
    /\ LET d == decide_chat_grounding(raw_mode, query, grounded_prompts_count,
                                      free_tier_limit, soft_cap, hard_cap)
       IN  /\ decision' = d
           /\ count_before' = grounded_prompts_count
           /\ grounded_prompts_count' =
                  IF d.grounding_attached THEN grounded_prompts_count + 1
                  ELSE grounded_prompts_count
    /\ request_index' = request_index + 1
    /\ UNCHANGED << raw_mode, query, free_tier_limit, soft_cap, hard_cap >>

PolicyRequest == RequestStep(MaxRequests)

PolicyNext == PolicyRequest

\* _compute_results, lines 89-104: the profile of the high-confidence query,
\* run from a count of zero with soft_cap < hard_cap < free_tier_limit
MaxSimRequests == 6    \* total_requests of a simulated profile
SimCapValues == 1..6

SimInit ==
    \E soft \in SimCapValues, hard \in SimCapValues, free \in SimCapValues :
        /\ soft < hard /\ hard < free
        /\ PolicyStart(TextValue(mode_auto), qLifeLike, 0,
                       IntValue(free), IntValue(soft), IntValue(hard))

SimRequest == RequestStep(MaxSimRequests)

SimNext == SimRequest

(***************************************************************************)
(* The signature as cache key (api/llm/agent.py, lines 831-843): a series  *)
(* of function calls looked up in the cache one after the other.           *)
(***************************************************************************)
MaxAsked == 3          \* function calls looked up in one behaviour

\* argument lists the model may give: the same keys in either order
ArgLists ==
    { << >>, << << "max_results", "20" >> >> }
        \cup { << << "surname", v >> >> : v \in { "Olson", "Bradford" } }
        \cup { << << "surname", v >>, << "max_results", "20" >> >> : v \in { "Olson", "Bradford" } }
        \cup { << << "max_results", "20" >>, << "surname", v >> >> : v \in { "Olson", "Bradford" } }
ToolCalls == [ name : { "filter_people", "analyze_naming_patterns" }, args : ArgLists ]

VARIABLES
    asked,         \* the function calls of the round, in order
    looked,        \* how many of them have been through the cache lookup
    lookup_cache,  \* tool_result_cache
    executed       \* calls of execute_tool_call

signatureVars == << asked, looked, lookup_cache, executed >>

SignatureStart(calls) ==
    /\ asked = calls
    /\ looked = 0
    /\ lookup_cache = {}
    /\ executed = 0

SignatureIdle == SignatureStart(<< >>)
SignatureInit == \E calls \in [ 1..MaxAsked -> ToolCalls ] : SignatureStart(calls)

\* lines 833-843: the signature of the next call; the cached result when there
\* is one, else execute_tool_call and the result cached under the signature
SignatureLookup ==
    /\ looked < Len(asked)
    /\ LET signature == Signature(asked[looked + 1])
       IN  IF InCache(lookup_cache, signature)
           THEN UNCHANGED << lookup_cache, executed >>
           ELSE /\ lookup_cache' = lookup_cache
                      \cup { [ signature |-> signature, result |-> "tool-result" ] }
                /\ executed' = executed + 1
    /\ looked' = looked + 1
    /\ UNCHANGED asked

SignatureNext == SignatureLookup

(***************************************************************************)
(* The request options of run_agent (api/llm/agent.py, lines 770-778).     *)
(***************************************************************************)
\* the values run_agent may be called with; 45 and 2 are the defaults
TimeoutSeconds == 0..60
RetryAttempts == 0..3

VARIABLES
    request_timeout_seconds,   \* the argument of run_agent
    request_retry_attempts,    \* the argument of run_agent
    request_http_options       \* the HttpOptions handed to every generate_content

optionsVars == << request_timeout_seconds, request_retry_attempts, request_http_options >>

NoOptions == [ built |-> FALSE, timeout |-> 0, attempts |-> 0 ]

OptionsStart(seconds, attempts) ==
    /\ request_timeout_seconds = seconds
    /\ request_retry_attempts = attempts
    /\ request_http_options = NoOptions

OptionsIdle == OptionsStart(45, 2)
OptionsInit ==
    \E seconds \in TimeoutSeconds, attempts \in RetryAttempts : OptionsStart(seconds, attempts)

\* lines 772-778: max(5, request_timeout_seconds) and max(1, request_retry_attempts)
\* go into HttpOptions as they are
BuildHttpOptions ==
    /\ ~ request_http_options.built
    /\ request_http_options' =
           [ built |-> TRUE,
             timeout |-> Max(5, request_timeout_seconds),
             attempts |-> Max(1, request_retry_attempts) ]
    /\ UNCHANGED << request_timeout_seconds, request_retry_attempts >>

OptionsNext == BuildHttpOptions

(***************************************************************************)
(* The settings resource (api/resources/search_grounding.py): the stored   *)
(* policy configuration and its update by PUT.                             *)
(***************************************************************************)
MaxPuts == 2           \* PUT requests handled in one behaviour

SEARCH_GROUNDING_MODE_KEY == "SEARCH_GROUNDING_MODE"
SEARCH_GROUNDING_SOFT_CAP_KEY == "SEARCH_GROUNDING_SOFT_CAP"
SEARCH_GROUNDING_HARD_CAP_KEY == "SEARCH_GROUNDING_HARD_CAP"
ConfigKeys ==
    { SEARCH_GROUNDING_MODE_KEY, SEARCH_GROUNDING_SOFT_CAP_KEY, SEARCH_GROUNDING_HARD_CAP_KEY }

\* lines 43-53: the reasons a decision may carry
GROUNDING_DECISION_REASONS ==
    { "mode_off", "mode_on", "scope_out", "tree_sufficient", "context_gap",
      "context_gap_soft_cap", "soft_cap_tightened", "cap_blocked_free_tier",
      "cap_blocked_hard" }

\* lines 56-61: int(value), the default when int() raises, never below zero
_coerce_non_negative_int(value, default) ==
    IF value.kind = "int" THEN Max(0, value.int)
    ELSE IF value.kind = "None" \/ ~ IsIntText(strip(value.text)) THEN default
    ELSE Max(0, TextToInt(strip(value.text)))

\* get_config(key): the stored value, None when the key was never set
get_config(store, key) == store[key]

\* config_set(key, value): the value is stored under the key
config_set(store, key, value) == [ store EXCEPT ![key] = TextValue(value) ]

\* lines 111-120: the settings in effect
_get_effective_settings(store) ==
    [ mode |-> normalize_search_grounding_mode(get_config(store, SEARCH_GROUNDING_MODE_KEY)),
      soft_cap |-> _coerce_non_negative_int(
                       get_config(store, SEARCH_GROUNDING_SOFT_CAP_KEY), 5000),
      hard_cap |-> _coerce_non_negative_int(
                       get_config(store, SEARCH_GROUNDING_HARD_CAP_KEY), 5000) ]

\* lines 235-244: the schema of the request body: a valid mode, caps >= 0
ArgsValid(args) ==
    /\ args.mode \in VALID_SEARCH_GROUNDING_MODES
    /\ args.soft_cap >= 0
    /\ args.hard_cap >= 0

\* variant: the caps are stored without being compared
CapsRejected_Never(soft, hard) == FALSE

\* line 250: hard_cap > 0 and soft_cap > hard_cap
CapsRejected(soft, hard) == hard > 0 /\ soft > hard

\* the request bodies a client may send
PutModes == { mode_off, mode_auto, mode_on, << "m", "a", "y", "b", "e" >> }
PutCaps == { -1, 0, 9, 10, 11 }
PutArgs == [ mode : PutModes, soft_cap : PutCaps, hard_cap : PutCaps, admin : BOOLEAN ]

VARIABLES
    config,        \* the stored configuration: for each key its value or None
    put_args,      \* the body and the caller of the last PUT
    put_status,    \* the status of the response to the last PUT
    puts           \* PUT requests handled so far

settingsVars == << config, put_args, put_status, puts >>

NoArgs == [ mode |-> << >>, soft_cap |-> 0, hard_cap |-> 0, admin |-> FALSE ]

\* no key has been set and no request was made
SettingsInit ==
    /\ config = [ k \in ConfigKeys |-> NoneValue ]
    /\ put_args = NoArgs
    /\ put_status = 0
    /\ puts = 0

\* SearchGroundingSettingsResource.put, lines 235-256: 422 from the schema,
\* 403 without the permission, 400 for soft_cap above hard_cap, else the three
\* values are stored
SettingsPut ==
    /\ puts < MaxPuts
    /\ \E args \in PutArgs :
         /\ put_args' = args
         /\ IF ~ ArgsValid(args)
            THEN put_status' = 422 /\ config' = config
            ELSE IF ~ args.admin
            THEN put_status' = 403 /\ config' = config
            ELSE IF CapsRejected(args.soft_cap, args.hard_cap)
            THEN put_status' = 400 /\ config' = config
            ELSE /\ put_status' = 200
                 /\ config' =
                      config_set(
                          config_set(
                              config_set(config, SEARCH_GROUNDING_MODE_KEY, args.mode),
                              SEARCH_GROUNDING_SOFT_CAP_KEY, IntToText(args.soft_cap)),
                          SEARCH_GROUNDING_HARD_CAP_KEY, IntToText(args.hard_cap))
    /\ puts' = puts + 1

SettingsNext == SettingsPut

(***************************************************************************)
(* Chat requests: each obtains its decision from the stored count, runs,   *)
(* and records its usage after the run.                                    *)
(***************************************************************************)
MaxChats == 3          \* chat requests decided in one behaviour

ChatHardCaps == { 1, 2 }

VARIABLES
    chat_decision,  \* per handler: the decision of its request, until recorded
    chats           \* chat requests decided so far

chatVars == << chat_decision, chats >>

ChatIdle ==
    /\ chat_decision = [ p \in Procs |-> NoDecision ]
    /\ chats = 0

\* a tree in auto mode with a positive hard cap, no request decided yet
ChatInit ==
    /\ ChatIdle
    /\ \E hard \in ChatHardCaps :
         PolicyStart(TextValue(mode_auto), qLifeLike, 0, NoneValue, NoneValue, IntValue(hard))

\* the caller reads the stored count of the month and obtains the decision
ChatDecide(p) ==
    /\ chats < MaxChats
    /\ upc[p] = "idle"
    /\ chat_decision[p] = NoDecision
    /\ LET usage == get_current_month_grounding_usage(table, Instants[clock])
       IN  chat_decision' = [ chat_decision EXCEPT ![p] =
               decide_chat_grounding(raw_mode, query, usage.grounded_prompts_count,
                                     free_tier_limit, soft_cap, hard_cap) ]
    /\ chats' = chats + 1
    /\ UNCHANGED << usageVars, policyVars >>

\* the run is over: the caller passes what it observed to the accountant
ChatRecord(p) ==
    /\ upc[p] = "idle"
    /\ chat_decision[p] # NoDecision
    /\ \E web_search_query_count \in
              (IF chat_decision[p].grounding_attached THEN { 0, 1 } ELSE { 0 }) :
         RecordStart(p, chat_decision[p].grounding_attached, web_search_query_count)
    /\ chat_decision' = [ chat_decision EXCEPT ![p] = NoDecision ]
    /\ UNCHANGED << chats, policyVars >>

\* a step of the accountant inside a record call
ChatAccountant(p) ==
    /\ \/ RecordRetryRead(p)
       \/ RecordCommit(p)
       \/ RecordCommitConflict(p)
    /\ UNCHANGED << chatVars, policyVars >>

ChatNext == \E p \in Procs : ChatDecide(p) \/ ChatRecord(p) \/ ChatAccountant(p)

(***************************************************************************)
(* Specifications.                                                         *)
(***************************************************************************)
vars == << usageVars, agentVars, policyVars, settingsVars, signatureVars, optionsVars,
           chatVars >>

\* the accountant, no run of the agent in progress and no request being decided
Init == UsageInit /\ AgentStart(1, 1, FALSE) /\ PolicyIdle /\ SettingsInit /\ SignatureIdle /\ OptionsIdle
    /\ ChatIdle

\* the accountant at rest, its table empty
UsageAtRest == UsageInit /\ table = {}
Next == UsageNext /\ UNCHANGED << agentVars, policyVars, settingsVars, signatureVars, optionsVars,
        chatVars >>
Spec == Init /\ [][Next]_vars

\* one run of the agent, the accountant at rest
InitAgent == AgentInit /\ UsageAtRest /\ PolicyIdle /\ SettingsInit /\ SignatureIdle /\ OptionsIdle
    /\ ChatIdle
NextAgent == AgentNext /\ UNCHANGED << usageVars, policyVars, settingsVars, signatureVars, optionsVars,
        chatVars >>
SpecAgent == InitAgent /\ [][NextAgent]_vars

\* the requests of one profile decided in turn, accountant and agent at rest
InitPolicy == PolicyInit /\ UsageAtRest /\ AgentStart(1, 1, FALSE) /\ SettingsInit /\ SignatureIdle /\ OptionsIdle
    /\ ChatIdle
NextPolicy == PolicyNext /\ UNCHANGED << usageVars, agentVars, settingsVars, signatureVars, optionsVars,
        chatVars >>
SpecPolicy == InitPolicy /\ [][NextPolicy]_vars

\* PUT requests handled one after the other, everything else at rest
InitSettings == SettingsInit /\ UsageAtRest /\ AgentStart(1, 1, FALSE) /\ PolicyIdle /\ SignatureIdle /\ OptionsIdle
    /\ ChatIdle
NextSettings == SettingsNext /\ UNCHANGED << usageVars, agentVars, policyVars, signatureVars, optionsVars,
        chatVars >>
SpecSettings == InitSettings /\ [][NextSettings]_vars

\* the options of a run, everything else at rest
InitOptions ==
    /\ OptionsInit /\ UsageAtRest /\ AgentStart(1, 1, FALSE) /\ PolicyIdle
    /\ SettingsInit /\ SignatureIdle
    /\ ChatIdle
NextOptions ==
    OptionsNext /\ UNCHANGED << usageVars, agentVars, policyVars, settingsVars, signatureVars,
        chatVars >>
SpecOptions == InitOptions /\ [][NextOptions]_vars

\* chat requests served by concurrent handlers, the agent at rest
InitChat ==
    /\ ChatInit /\ UsageInit /\ AgentStart(1, 1, FALSE)
    /\ SettingsInit /\ SignatureIdle /\ OptionsIdle
NextChat ==
    ChatNext /\ UNCHANGED << agentVars, settingsVars, signatureVars, optionsVars >>
SpecChat == InitChat /\ [][NextChat]_vars

\* a simulated profile, everything else at rest
InitSimulation ==
    SimInit /\ UsageAtRest /\ AgentStart(1, 1, FALSE) /\ SettingsInit /\ SignatureIdle /\ OptionsIdle
    /\ ChatIdle
NextSimulation ==
    SimNext /\ UNCHANGED << usageVars, agentVars, settingsVars, signatureVars, optionsVars,
        chatVars >>
SpecSimulation == InitSimulation /\ [][NextSimulation]_vars

\* the calls of a round looked up one after the other, everything else at rest
InitSignature ==
    SignatureInit /\ UsageAtRest /\ AgentStart(1, 1, FALSE) /\ PolicyIdle /\ SettingsInit /\ OptionsIdle
    /\ ChatIdle
NextSignature ==
    SignatureNext /\ UNCHANGED << usageVars, agentVars, policyVars, settingsVars, optionsVars,
        chatVars >>
SpecSignature == InitSignature /\ [][NextSignature]_vars

\* every step of run_agent is a blocking call that returns or raises
FairSpecAgent == SpecAgent /\ WF_vars(NextAgent)

(***************************************************************************)
(* Properties of the accountant.                                           *)
(***************************************************************************)
Returned(op) == ret.op = op /\ ret.outcome = "returned"
NonZero(c) == c.grounded_delta # 0 \/ c.query_delta # 0

\* commit attempts of a record call: the failed ones and the successful one
CommitAttempts(c) == c.attempt + c.applied

StoredCount(d, column) ==
    IF RowsOf(table, d) = {} THEN 0 ELSE QueryFirst(table, d)[column]

\* C1: when a call of record_monthly_grounding_usage with a non-zero delta
\* returns, its delta has been committed exactly once, whatever conflicts its
\* attempts met (none, the first only, or both).
C1_DeltaAppliedExactlyOnce ==
    (Returned("record") /\ NonZero(ret)) => ret.applied = 1

\* C5: once all calls have returned, and no commit failed for another reason
\* than a rival row, the stored counters of each period are the sums of the
\* deltas of the calls made for it.
C5_NoDeltaLost ==
    (injected = 0 /\ \A p \in Procs : upc[p] = "idle")
        => \A d \in Periods :
              /\ StoredCount(d, "grounded_prompts_count") = calledFor[d].grounded
              /\ StoredCount(d, "web_search_queries_count") = calledFor[d].queries

\* a call recording (attached=true, queries=3), alone in its period, has
\* returned after a conflict on its first commit and a successful second commit
C6_Case ==
    /\ Returned("record")
    /\ ret.grounded_delta = 1 /\ ret.query_delta = 3
    /\ ret.attempt = 1 /\ ret.applied = 1
    /\ calledFor[ret.period_start].calls = 1

\* C6: a call recording (attached=true, queries=3) in a period no other call
\* records in, whose first commit conflicts and whose second commit succeeds,
\* returns and stores 1 and 3, after exactly two commit attempts, in the one
\* row of the period.
C6_RetryAppliesOnce ==
    C6_Case
        => /\ CommitAttempts(ret) = 2
           /\ ret.result.grounded_prompts_count = 1
           /\ ret.result.web_search_queries_count = 3
           /\ Cardinality(RowsOf(table, ret.period_start)) = 1
           /\ StoredCount(ret.period_start, "grounded_prompts_count") = 1
           /\ StoredCount(ret.period_start, "web_search_queries_count") = 3

C6_Witness == C6_Case /\ injected = 1

\* C7: the table never holds two rows of one period_start, and a writer whose
\* INSERT lost against a rival row retries as an UPDATE of that row.
C7_OneRowPerPeriod ==
    /\ \A d \in Periods : Cardinality(RowsOf(table, d)) <= 1
    /\ \A p \in Procs :
          (upc[p] = "rec_commit" /\ call[p].rivals > 0)
              => /\ call[p].usage.id # 0
                 /\ call[p].usage.id = QueryFirst(table, call[p].period_start).id

\* two first writers of a period: the loser of the INSERT has committed its
\* retry, and the row holds both deltas
C7_Witness ==
    /\ Returned("record") /\ ret.rivals = 1 /\ ret.attempt = 1 /\ ret.applied = 1
    /\ calledFor[ret.period_start].calls = 2
    /\ Cardinality(RowsOf(table, ret.period_start)) = 1
    /\ StoredCount(ret.period_start, "grounded_prompts_count")
           = calledFor[ret.period_start].grounded
    /\ StoredCount(ret.period_start, "web_search_queries_count")
           = calledFor[ret.period_start].queries

\* C8: the stored counters of a row never decrease from one state to the next.
C8_CountersNeverDecrease ==
    [][ \A r \in table : \A s \in table' :
            s.id = r.id =>
                /\ s.grounded_prompts_count >= r.grounded_prompts_count
                /\ s.web_search_queries_count >= r.web_search_queries_count ]_vars

\* the calls of maybe_record_threshold_alerts past their read of the row
AlertCallsPastRead ==
    { call[p] : p \in { q \in Procs : upc[q] = "al_commit" } }
        \cup (IF Returned("alerts") THEN { ret } ELSE {})

\* C9: a call of maybe_record_threshold_alerts that reads a threshold's
\* timestamp as set does not report the threshold as triggered and does not
\* write the timestamp, whatever count it is given.
C9_AlertOnlyOnFirstCrossing ==
    \A c \in AlertCallsPastRead : \A t \in Thresholds :
        c.seen[t] # NoValue
            => /\ ~ InSeq(t, c.triggered)
               /\ ColumnOf(t) \notin c.dirty

\* a later call, at a later time and with a count at or above the soft cap,
\* has returned without reporting the soft cap, whose timestamp is unchanged
C9_Witness ==
    /\ Returned("alerts")
    /\ "soft_cap" \in ret.reached
    /\ ret.seen["soft_cap"] # NoValue
    /\ ret.seen["soft_cap"] # Stamp(Instants[clock])
    /\ ret.triggered = << >>
    /\ StoredCount(ret.period_start, "soft_cap_alert_sent_at") = ret.seen["soft_cap"]

\* C10: in a period, each threshold is reported as triggered by at most one
\* call and its timestamp is written at most once.
C10_AlertReportedOnce ==
    \A d \in Periods : \A t \in Thresholds :
        alertLog[d][t].reports <= 1 /\ alertLog[d][t].writes <= 1

(***************************************************************************)
(* Properties of the tool-call loop.                                       *)
(***************************************************************************)
ToolRequests == SelectSeq(requests, LAMBDA q : q.tools)
SynthesisRequests == SelectSeq(requests, LAMBDA q : ~ q.tools)
Range(seq) == { seq[i] : i \in 1..Len(seq) }
TimesIn(x, seq) == Cardinality({ i \in 1..Len(seq) : seq[i] = x })

\* every model call with tools made so far was answered with the round r
OnlyRound(r) ==
    /\ ToolRequests # << >>
    /\ \A i \in 1..Len(ToolRequests) : ToolRequests[i].answer = Answer(RoundResponse(r))

\* C2: while the model answers every call with the same round, the repeat
\* counter is the number of repeats; the model is never asked again with tools
\* once the counter has reached max_repeated_function_calls; and when
\* max_repeated_function_calls + 1 <= max_iterations the finished run has made
\* max_repeated_function_calls + 1 calls with tools and one without, returns the
\* response of the latter, and has dispatched each distinct call of the round once.
C2_RepeatedRoundForcesSynthesis ==
    \A r \in Rounds :
        OnlyRound(r)
            => /\ repeated_signature_rounds = Len(ToolRequests) - 1
               /\ Len(ToolRequests) <= max_repeated_function_calls + 1
               /\ (apc = "done" /\ max_repeated_function_calls + 1 <= max_iterations)
                      => /\ Len(ToolRequests) = max_repeated_function_calls + 1
                         /\ Len(SynthesisRequests) = 1
                         /\ ~ requests[Len(requests)].tools
                         /\ response.source = "synthesis"
                         /\ Range(dispatched) = Range(SignaturesOf(r))
                         /\ \A g \in Range(dispatched) : TimesIn(g, dispatched) = 1

C2_Witness ==
    /\ OnlyRound(<< FunctionCallPart(tcOlson), FunctionCallPart(tcBradford) >>)
    /\ apc = "done"
    /\ max_repeated_function_calls = 2 /\ max_iterations = 3
    /\ Len(ToolRequests) = 3 /\ Len(SynthesisRequests) = 1
    /\ Len(dispatched) = 2
    /\ response.source = "synthesis"

\* the function calls of the model message at position k of the conversation
CallsAt(k) == SelectSeq(contents[k].parts, HasCall)

\* C3: no signature is handed to execute_tool_call twice in a run, and every
\* tool result in the conversation is the result stored under the signature of
\* its call.
C3_DispatchedAtMostOnce ==
    /\ \A g \in Range(dispatched) : TimesIn(g, dispatched) = 1
    /\ \A k \in 1..(Len(contents) - 1) :
          contents[k].role = "model"
              => /\ Len(contents[k + 1].parts) = Len(CallsAt(k))
                 /\ \A i \in 1..Len(CallsAt(k)) :
                       LET tc == CallsAt(k)[i].function_call
                       IN  /\ InCache(tool_result_cache, Signature(tc))
                           /\ contents[k + 1].parts[i] =
                                  [ name |-> tc.name,
                                    result |-> CachedResult(tool_result_cache,
                                                            Signature(tc)) ]

\* a signature asked for in two rounds, and twice in the second, dispatched once
C3_Witness ==
    /\ apc = "done"
    /\ Len(contents) >= 5
    /\ contents[2].role = "model" /\ contents[4].role = "model"
    /\ contents[2].parts = << FunctionCallPart(tcOlson) >>
    /\ contents[4].parts = << FunctionCallPart(tcOlson), FunctionCallPart(tcOlson) >>
    /\ dispatched = << Signature(tcOlson) >>
    /\ Len(contents[5].parts) = 2

\* C4: every run ends, after at most max_iterations model calls with tools and
\* at most one model call without tools, which is the last call of the run.
C4_RunTerminates ==
    /\ <>(apc \in { "done", "raised" })
    /\ [](/\ Len(ToolRequests) <= max_iterations
          /\ Len(SynthesisRequests) <= 1
          /\ Len(SynthesisRequests) = 1
                => (apc \in { "done", "raised" } /\ ~ requests[Len(requests)].tools))

\* a model asking for tools in every response: max_iterations calls with tools,
\* no loop-breaking, then the call without tools
C4_Witness ==
    /\ apc = "done"
    /\ max_iterations = MaxIterations
    /\ Len(ToolRequests) = max_iterations
    /\ \A i \in 1..Len(ToolRequests) : AnyFunctionCall(ToolRequests[i].answer.parts)
    /\ ~ forced_synthesis
    /\ Len(SynthesisRequests) = 1

\* the instructions other than the synthesis one that a run may append
FailureInstruction == UserText("The previous model request failed")
VerificationInstruction ==
    UserText("Verify this answer against the family tree; you must call relevant tools before finalizing")
LastSent(q) == q.contents[Len(q.contents)]

\* C11: a failed model call with tools does not abort the run; the finished run
\* has made exactly one more model call after it, without tools, with the
\* "previous model request failed" instruction, and returns that call's response.
C11_FailedModelCallFallsBack ==
    \A i \in 1..Len(requests) :
        (requests[i].tools /\ requests[i].answer.raised)
            => /\ apc # "raised"
               /\ apc = "done"
                     => /\ Len(requests) = i + 1
                        /\ ~ requests[i + 1].tools
                        /\ LastSent(requests[i + 1]) = FailureInstruction
                        /\ response.source = "synthesis"

\* C12: a step that hands a call to execute_tool_call never aborts the run,
\* whether the tool returns or raises: the call gets a tool result and the
\* round goes on with its remaining calls or with the next model call.
C12_ToolFailureNeverAborts ==
    [][ Len(dispatched') > Len(dispatched)
            => /\ apc' # "raised"
               /\ pending' = Tail(pending)
               /\ apc' \in { "execute", "model_call", "final" } ]_vars

\* the first response of the run is text about the tree and asks for no tool
FirstAnswerIsTreeClaim ==
    /\ requests # << >>
    /\ requests[1].answer = Answer(TreeClaimResponse)

\* C13: a run whose first response is a tool-less claim about the tree does not
\* end with that response: the model is called again, with the verification
\* instruction as the last message.
C13_TreeClaimIsVerified ==
    (apc = "done" /\ FirstAnswerIsTreeClaim)
        => /\ Len(requests) >= 2
           /\ requests[2].tools
           /\ LastSent(requests[2]) = VerificationInstruction

\* C14: when the answer to the verification call asks for no tool either, the
\* finished run has made three model calls, the third without tools, and one
\* dispatch, the lookup made by the orchestrator itself.
C14_SecondTreeClaimUsesLookup ==
    (/\ apc = "done"
     /\ FirstAnswerIsTreeClaim
     /\ Len(requests) >= 2 => ~ AnyFunctionCall(requests[2].answer.parts))
        => /\ Len(requests) = 3
           /\ ~ requests[3].tools
           /\ Len(dispatched) = 1
           /\ response.source = "synthesis"

(***************************************************************************)
(* Properties of the grounding policy.                                     *)
(***************************************************************************)
Decided == request_index > 0
ModeOf(m) == normalize_search_grounding_mode(m)

\* C15: a decision that refuses the request never attaches grounding.
C15_RefusalNeverAttaches ==
    (Decided /\ decision.should_refuse) => ~ decision.grounding_attached

C15_Witness ==
    /\ Decided /\ decision.should_refuse
    /\ ModeOf(raw_mode) = mode_on
    /\ query = qWeather

\* the query has an out-of-scope hint, no genealogy keyword and no two
\* capitalized words in a row
OutOfScope(q) ==
    /\ ContainsAny(OUT_OF_SCOPE_HINTS, strip(lower(q)))
    /\ ~ ContainsAny(GENEALOGY_SCOPE_KEYWORDS, strip(lower(q)))
    /\ ~ _looks_like_person_name(q)

\* C16: the decision for an out-of-scope query is the refusal with reason
\* scope_out, grounding not attached and the refusal message, for every mode,
\* count and cap.
C16_OutOfScopeIsRefused ==
    (Decided /\ OutOfScope(query))
        => /\ decision.decision_reason = "scope_out"
           /\ decision.should_refuse
           /\ ~ decision.grounding_attached
           /\ decision.refusal_message = OUT_OF_SCOPE_REFUSAL_MESSAGE

\* an out-of-scope query decided in mode on, at a count above every cap
C16_Witness ==
    /\ Decided /\ OutOfScope(query)
    /\ ModeOf(raw_mode) = mode_on
    /\ count_before = 5001
    /\ hard_cap = IntValue(5000) /\ free_tier_limit = IntValue(5000)

\* C17: in auto mode "Did Predator Badlands get good movie reviews?" is
\* refused: reason scope_out, should_refuse, grounding not attached, a message.
C17_PredatorQueryIsRefused ==
    (Decided /\ query = qPredator /\ ModeOf(raw_mode) = mode_auto)
        => /\ decision.decision_reason = "scope_out"
           /\ decision.should_refuse
           /\ ~ decision.grounding_attached
           /\ decision.refusal_message # NoMessage

\* the configuration of test_threshold_crossing_is_deterministic
ThresholdConfig ==
    /\ ModeOf(raw_mode) = mode_auto
    /\ query = qLifeLike
    /\ free_tier_limit = IntValue(100000)
    /\ soft_cap = IntValue(4000)
    /\ hard_cap = IntValue(5000)

\* C18: under that configuration count 3999 gives context_gap with grounding,
\* every count in 4000..4999 gives context_gap_soft_cap with grounding, and
\* counts 5000 and 5001 give cap_blocked_hard without grounding.
C18_ThresholdCrossing ==
    (Decided /\ ThresholdConfig)
        => /\ count_before = 3999
                => (decision.decision_reason = "context_gap"
                        /\ decision.grounding_attached)
           /\ count_before \in 4000..4999
                => (decision.decision_reason = "context_gap_soft_cap"
                        /\ decision.grounding_attached)
           /\ count_before \in { 5000, 5001 }
                => (decision.decision_reason = "cap_blocked_hard"
                        /\ ~ decision.grounding_attached)

\* the count has just reached the soft cap
C18_Witness ==
    /\ Decided /\ ThresholdConfig
    /\ count_before = 4000
    /\ decision.decision_reason = "context_gap_soft_cap"
    /\ request_index = 2

\* the count the last request read has reached the limit that value sets
Reached(value) == ReachedLimit(_normalize_limit(value), count_before)

\* the query contains a high-confidence context-gap keyword
HighConfidence(q) == ContainsAny(HIGH_CONFIDENCE_CONTEXT_GAP_KEYWORDS, strip(lower(q)))

\* C19: in auto mode, the soft cap reached and neither the free tier nor the
\* hard cap, a context-gap query in scope is denied grounding with reason
\* soft_cap_tightened unless it is high-confidence, and then it is granted
\* grounding with reason context_gap_soft_cap.
C19_SoftCapTightening ==
    (/\ Decided
     /\ Reached(soft_cap) /\ ~ Reached(free_tier_limit) /\ ~ Reached(hard_cap)
     /\ ModeOf(raw_mode) = mode_auto
     /\ _is_in_genealogy_scope(query)
     /\ _is_context_gap_query(query))
        => IF HighConfidence(query)
           THEN decision.decision_reason = "context_gap_soft_cap"
                    /\ decision.grounding_attached
           ELSE decision.decision_reason = "soft_cap_tightened"
                    /\ ~ decision.grounding_attached

C19_Witness ==
    /\ Decided
    /\ ModeOf(raw_mode) = mode_auto
    /\ query = qContext /\ ~ HighConfidence(query)
    /\ count_before = 4999 /\ soft_cap = IntValue(4000) /\ hard_cap = IntValue(5000)
    /\ decision.decision_reason = "soft_cap_tightened"

\* C20: for a query in scope, mode off gives mode_off without grounding and
\* mode on gives mode_on with grounding, whatever the count and the caps.
C20_ModeOffOnIgnoreCaps ==
    (Decided /\ _is_in_genealogy_scope(query))
        => /\ ModeOf(raw_mode) = mode_off
                => (decision.decision_reason = "mode_off"
                        /\ ~ decision.grounding_attached)
           /\ ModeOf(raw_mode) = mode_on
                => (decision.decision_reason = "mode_on"
                        /\ decision.grounding_attached)

\* mode on at a count above the free tier and the hard cap
C20_Witness ==
    /\ Decided
    /\ query = qAncestors
    /\ ModeOf(raw_mode) = mode_on
    /\ count_before >= 5001
    /\ free_tier_limit = IntValue(5000) /\ hard_cap = IntValue(5000)
    /\ decision.grounding_attached

(***************************************************************************)
(* Further properties of the accountant.                                   *)
(***************************************************************************)
\* handler p takes a step of a record call for the month of now
RecordStepFor(p, now) ==
    /\ upc[p] # "idle"
    /\ call[p].op = "record"
    /\ call[p].period_start = get_utc_month_start(now)
    /\ upc'[p] # upc[p]

\* C22: what a read returns for a month changes only in a step of a record
\* call for that month, and a month no call has recorded in reads as zero
\* counters under its own period_start.
C22_MonthsAreIsolated ==
    /\ [][ \A now \in Nows :
             get_current_month_grounding_usage(table', now)
                 # get_current_month_grounding_usage(table, now)
                     => \E p \in Procs : RecordStepFor(p, now) ]_vars
    /\ [](\A now \in Nows :
             calledFor[get_utc_month_start(now)].calls = 0
                 => get_current_month_grounding_usage(table, now)
                        = [ period_start |-> get_utc_month_start(now),
                            grounded_prompts_count |-> 0,
                            web_search_queries_count |-> 0 ])

\* February recorded (1, 3), March recorded afterwards, February still read
\* as recorded
C22_Witness ==
    /\ clock = 2
    /\ Returned("record") /\ ret.applied = 1
    /\ ret.period_start = get_utc_month_start(Instants[2])
    /\ calledFor[get_utc_month_start(Instants[1])].calls = 1
    /\ get_current_month_grounding_usage(table, Instants[1])
           = [ period_start |-> get_utc_month_start(Instants[1]),
               grounded_prompts_count |-> 1,
               web_search_queries_count |-> 3 ]
    /\ get_current_month_grounding_usage(table, Instants[2]).grounded_prompts_count = 1

\* a step in which a call with nothing to record starts and ends
EmptyRecordStep ==
    /\ started' = started + 1
    /\ call' = call
    /\ ret'.op = "record"
    /\ ~ NonZero(ret')

\* C23: a record call whose deltas are both zero never reaches the read or the
\* commit; it returns None, and the step in which it runs leaves the table as
\* it was.
C23_NothingToRecordWritesNothing ==
    /\ [](\A p \in Procs :
             (upc[p] # "idle" /\ call[p].op = "record") => NonZero(call[p]))
    /\ []((Returned("record") /\ ~ NonZero(ret))
             => (ret.result = NoResult /\ CommitAttempts(ret) = 0))
    /\ [][ EmptyRecordStep => table' = table ]_vars

\* a call with nothing to record has returned, the row of the month as before
C23_Witness ==
    /\ Returned("record") /\ ~ NonZero(ret)
    /\ ret.result = NoResult
    /\ started = 1
    /\ table = { FirstRow }

\* C24: a record call with something to record always ends by returning a
\* snapshot of its period, whatever conflicts its commits met; it never ends
\* with an error.
C24_ConflictsNeverSurface ==
    (ret.op = "record" /\ NonZero(ret))
        => /\ ret.outcome = "returned"
           /\ ret.result # NoResult
           /\ ret.result.period_start = ret.period_start

\* C30: a record call makes at most two commit attempts; after two failed
\* attempts it is at the final read, from which it ends without a further
\* attempt.
C30_AtMostTwoCommitAttempts ==
    /\ \A p \in Procs :
          (upc[p] # "idle" /\ call[p].op = "record")
              => /\ CommitAttempts(call[p]) <= 2
                 /\ upc[p] \in { "rec_read", "rec_commit" } => call[p].attempt < 2
                 /\ upc[p] = "rec_final" <=> call[p].attempt = 2
    /\ ret.op = "record"
          => /\ CommitAttempts(ret) <= 2
             /\ ret.attempt = 2 => ret.applied = 0

\* a call has returned from the final read after two failed attempts
C30_Witness ==
    /\ Returned("record")
    /\ ret.attempt = 2 /\ ret.applied = 0
    /\ ret.result # NoResult

(***************************************************************************)
(* Further properties of the tool-call loop.                               *)
(***************************************************************************)
\* the function calls of the answer to the k-th model call with tools
AnswerCalls(k) == SelectSeq(ToolRequests[k].answer.parts, HasCall)

\* C28: a round whose calls have the same set of signatures as the round
\* before it counts as a repeat (the repeat counter is at least one after it),
\* also when the calls come in another order or a call is duplicated.
C28_RepeatsComparedAsSets ==
    LET n == Len(ToolRequests)
    IN  (/\ n >= 2
         /\ AnswerCalls(n) # << >>
         /\ AnswerCalls(n - 1) # << >>
         /\ Range(SignaturesOf(AnswerCalls(n))) = Range(SignaturesOf(AnswerCalls(n - 1))))
            => repeated_signature_rounds >= 1

\* the argument mapping of a call: its key/value pairs, whatever their order
ArgMap(tc) == { tc.args[i] : i \in 1..Len(tc.args) }
SameCall(a, b) == a.name = b.name /\ ArgMap(a) = ArgMap(b)
Looked == { asked[i] : i \in 1..looked }

\* C29: two calls have the same signature exactly when they have the same name
\* and the same argument mapping, whatever the order of the keys; so the calls
\* looked up so far were executed once per distinct name and mapping.
C29_SignatureIsNameAndMapping ==
    /\ \A a, b \in Looked : (Signature(a) = Signature(b)) <=> SameCall(a, b)
    /\ executed = Cardinality({ << tc.name, ArgMap(tc) >> : tc \in Looked })

\* after a call, the same call with its keys in the other order and the same
\* arguments under another tool name were looked up: two executions
C29_Witness ==
    /\ looked = 3
    /\ asked[1].name = "filter_people"
    /\ asked[1].args = << << "surname", "Olson" >>, << "max_results", "20" >> >>
    /\ asked[2].name = "filter_people"
    /\ asked[2].args = << << "max_results", "20" >>, << "surname", "Olson" >> >>
    /\ asked[3].name = "analyze_naming_patterns"
    /\ asked[3].args = asked[1].args
    /\ executed = 2

(***************************************************************************)
(* Further properties of the policy.                                       *)
(***************************************************************************)
AttachingReasons == { "mode_on", "context_gap", "context_gap_soft_cap" }

\* C26: every decision carries one of the nine reasons, and grounding is
\* attached exactly when the reason is mode_on, context_gap or
\* context_gap_soft_cap.
C26_ReasonDeterminesAttachment ==
    Decided =>
        /\ decision.decision_reason \in GROUNDING_DECISION_REASONS
        /\ decision.grounding_attached <=> decision.decision_reason \in AttachingReasons

\* two requests were decided, the last one as tree_sufficient without grounding
C26_Witness ==
    /\ request_index = 2
    /\ decision.decision_reason = "tree_sufficient"
    /\ ~ decision.grounding_attached

\* C27: in auto mode, for a query in scope, a count at or above the free tier
\* limit gives cap_blocked_free_tier (also when the hard cap is reached), else a
\* count at or above the hard cap gives cap_blocked_hard, whatever the query's
\* classification.
C27_CapsBeforeContent ==
    (Decided /\ ModeOf(raw_mode) = mode_auto /\ (Reached(free_tier_limit) \/ Reached(hard_cap)))
        => \/ decision.decision_reason =
                  IF Reached(free_tier_limit) THEN "cap_blocked_free_tier"
                  ELSE "cap_blocked_hard"
           \/ OutOfScope(query)

\* a query that is not a context-gap query, decided in auto mode with both the
\* free tier limit and the hard cap reached, got cap_blocked_free_tier
C27_Witness ==
    /\ Decided
    /\ ModeOf(raw_mode) = mode_auto
    /\ query = qAncestors
    /\ count_before = 5001
    /\ free_tier_limit = IntValue(5000)
    /\ hard_cap = IntValue(5000)
    /\ decision.decision_reason = "cap_blocked_free_tier"

(***************************************************************************)
(* Properties of the settings resource.                                    *)
(***************************************************************************)
StoredCaps == _get_effective_settings(config)

\* C25: the stored configuration has soft_cap <= hard_cap whenever hard_cap > 0;
\* a PUT with soft_cap above a positive hard_cap is answered with an error, and
\* a PUT answered with an error leaves the stored configuration as it was.
C25_SoftCapNeverAboveHardCap ==
    /\ [](StoredCaps.hard_cap > 0 => StoredCaps.soft_cap <= StoredCaps.hard_cap)
    /\ []((puts > 0 /\ put_args.hard_cap > 0 /\ put_args.soft_cap > put_args.hard_cap)
             => put_status \in { 400, 403, 422 })
    /\ [][ (puts' = puts + 1 /\ put_status' # 200) => config' = config ]_vars

\* after a stored update, an admin's PUT of soft_cap 11 with hard_cap 10 was
\* answered 400 and the stored values are those of the first update
C25_Witness ==
    /\ puts = 2
    /\ put_status = 400
    /\ put_args.admin /\ put_args.soft_cap = 11 /\ put_args.hard_cap = 10
    /\ StoredCaps = [ mode |-> mode_on, soft_cap |-> 9, hard_cap |-> 10 ]

(***************************************************************************)
(* Properties of the alerts without a new trigger.                         *)
(***************************************************************************)
\* this step starts a call of maybe_record_threshold_alerts
AlertsStarted ==
    /\ started' = started + 1
    /\ \/ \E p \in Procs : upc[p] = "idle" /\ upc'[p] = "al_commit"
       \/ upc' = upc /\ ret'.op = "alerts"

\* the call started in this step
StartedAlerts ==
    IF \E p \in Procs : upc[p] = "idle" /\ upc'[p] = "al_commit"
    THEN call'[CHOOSE p \in Procs : upc[p] = "idle" /\ upc'[p] = "al_commit"]
    ELSE ret'

\* no threshold newly triggers for the call c: its period has no row, or every
\* threshold its count has reached has its timestamp set
NothingNew(c) ==
    \/ RowsOf(table, c.period_start) = {}
    \/ \A t \in c.reached : QueryFirst(table, c.period_start)[ColumnOf(t)] # NoValue

\* C33: a call of maybe_record_threshold_alerts in which no threshold newly
\* triggers returns at once with an empty triggered list: the table is as it
\* was, no row is created and no commit follows.
C33_NoTriggerWritesNothing ==
    [][ (AlertsStarted /\ NothingNew(StartedAlerts))
            => /\ table' = table
               /\ alertLog' = alertLog
               /\ upc' = upc
               /\ ret'.op = "alerts" /\ ret'.outcome = "returned"
               /\ ret'.triggered = << >> ]_vars

\* a call with a count at or above a cap, for a period without a row, has
\* returned an empty list and the period still has no row
C33_Witness ==
    /\ Returned("alerts")
    /\ ret.reached # {}
    /\ ret.triggered = << >>
    /\ RowsOf(table, ret.period_start) = {}
    /\ table # {}

(***************************************************************************)
(* Properties of the model calls of a run.                                 *)
(***************************************************************************)
IsPrefix(a, b) == Len(a) <= Len(b) /\ SubSeq(b, 1, Len(a)) = a

\* C34: every step leaves the messages of the conversation as they are and
\* in their order, adding messages only at the end; so the content sent with a
\* model call is the content of the call before it with messages appended.
C34_ContentsOnlyGrow ==
    /\ [][ IsPrefix(contents, contents') ]_vars
    /\ [](/\ \A i \in 1..(Len(requests) - 1) :
                IsPrefix(requests[i].contents, requests[i + 1].contents)
          /\ requests # << >> => IsPrefix(requests[Len(requests)].contents, contents)
          /\ contents[1] = Prompt)

\* three model calls, each with more content than the one before
C34_Witness ==
    /\ apc = "done"
    /\ Len(requests) = 3
    /\ Len(requests[1].contents) < Len(requests[2].contents)
    /\ Len(requests[2].contents) < Len(requests[3].contents)
    /\ ~ requests[3].tools

\* the answer to the last model call with tools has function calls
LastAnswerHasCalls == ToolRequests # << >> /\ AnswerCalls(Len(ToolRequests)) # << >>

\* C35: a finished run whose response in iteration max_iterations had function
\* calls, without loop-breaking, has executed them and then made exactly one
\* call without tools, whose response it returns; a finished run whose last
\* response had no function call before the bound has made no such call.
C35_SynthesisAtTheBound ==
    apc = "done" =>
        /\ (Len(ToolRequests) = max_iterations /\ LastAnswerHasCalls /\ ~ forced_synthesis)
              => /\ Len(SynthesisRequests) = 1
                 /\ ~ requests[Len(requests)].tools
                 /\ response.source = "synthesis"
                 /\ Len(contents) >= 4
                 /\ contents[Len(contents)] = SynthesisInstruction
                 /\ contents[Len(contents) - 2] =
                        [ role |-> "model",
                          parts |-> ToolRequests[Len(ToolRequests)].answer.parts ]
                 /\ Len(contents[Len(contents) - 1].parts)
                        = Len(AnswerCalls(Len(ToolRequests)))
                 /\ \A tc \in Range(AnswerCalls(Len(ToolRequests))) :
                        InCache(tool_result_cache, Signature(tc.function_call))
        /\ (Len(ToolRequests) < max_iterations /\ ~ LastAnswerHasCalls)
              => /\ SynthesisRequests = << >>
                 /\ response.source = "tools"

\* three iterations, each answered with function calls that differ from the
\* round before, then the call without tools
C35_Witness ==
    /\ apc = "done"
    /\ max_iterations = 3 /\ Len(ToolRequests) = 3
    /\ ~ forced_synthesis
    /\ LastAnswerHasCalls
    /\ Len(SynthesisRequests) = 1
    /\ response.source = "synthesis"
    /\ Len(dispatched) = 3

\* the signatures of the answer to the k-th model call with tools
AnswerSignatures(k) == SignaturesOf(ToolRequests[k].answer.parts)

\* C37: a round whose signatures differ from those of the round before it sets
\* the repeat counter to zero; loop-breaking fires only when the last
\* max_repeated_function_calls + 1 rounds are the same; a run whose rounds
\* always differ from the round before is never stopped by loop-breaking and
\* ends after max_iterations rounds.
C37_DifferentRoundResetsCounter ==
    LET n == Len(ToolRequests)
        Differs(k) == Range(AnswerSignatures(k)) # Range(AnswerSignatures(k - 1))
        WithCalls(k) == AnswerCalls(k) # << >>
    IN  /\ (n >= 2 /\ WithCalls(n) /\ WithCalls(n - 1) /\ Differs(n))
              => repeated_signature_rounds = 0
        /\ forced_synthesis
              => /\ n >= max_repeated_function_calls + 1
                 /\ \A k \in (n - max_repeated_function_calls)..n :
                        WithCalls(k) /\ AnswerSignatures(k) = AnswerSignatures(n)
        /\ (\A k \in 2..n : Differs(k))
              => /\ n >= 2 => ~ forced_synthesis
                 /\ (apc = "done" /\ \A k \in 1..n : WithCalls(k)) => n = max_iterations

\* with max_repeated_function_calls = 1, three rounds Olson, Bradford-and-Olson,
\* Olson went through without loop-breaking and the run ended at the bound
C37_Witness ==
    /\ apc = "done"
    /\ max_repeated_function_calls = 1 /\ max_iterations = 3
    /\ Len(ToolRequests) = 3
    /\ AnswerSignatures(1) = << Signature(tcOlson) >>
    /\ AnswerSignatures(2) = << Signature(tcBradford), Signature(tcOlson) >>
    /\ AnswerSignatures(3) = << Signature(tcOlson) >>
    /\ ~ forced_synthesis
    /\ repeated_signature_rounds = 0

\* C38: a response without candidates or without content parts ends the run:
\* it is the answer to the last model call of the run, and the finished run
\* returns it.
C38_EmptyResponseEndsRun ==
    \A i \in 1..Len(requests) :
        (/\ requests[i].tools
         /\ ~ requests[i].answer.raised
         /\ (~ requests[i].answer.candidates \/ requests[i].answer.parts = << >>))
            => /\ i = Len(requests)
               /\ apc = "done" => response.source = "tools"

\* C31: a model call with tools carries the web search exactly when grounding
\* is attached for the run, and a run without grounding sends the web search
\* in no model call, the synthesis call included.
C31_WebSearchOnlyWhenGrounded ==
    \A i \in 1..Len(requests) :
        /\ requests[i].tools => (requests[i].google_search <=> grounding_enabled)
        /\ ~ grounding_enabled => ~ requests[i].google_search

\* a finished run without grounding that made calls with tools and the
\* synthesis call
C31_Witness ==
    /\ apc = "done"
    /\ ~ grounding_enabled
    /\ Len(ToolRequests) >= 2
    /\ Len(SynthesisRequests) = 1

(***************************************************************************)
(* Properties of the simulated profile.                                    *)
(***************************************************************************)
SoftCapReasons == { "soft_cap_tightened", "context_gap_soft_cap" }

\* C32: in the profile of the high-confidence query, request k gets a soft-cap
\* reason exactly when soft_cap < k <= hard_cap and cap_blocked_hard exactly
\* when k > hard_cap, so the first of each is request soft_cap + 1 and request
\* hard_cap + 1; the count never exceeds hard_cap.
C32_ThresholdsInSimulation ==
    /\ grounded_prompts_count <= hard_cap.int
    /\ Decided =>
          /\ decision.decision_reason \in SoftCapReasons
                <=> (soft_cap.int < request_index /\ request_index <= hard_cap.int)
          /\ decision.decision_reason = "cap_blocked_hard"
                <=> request_index > hard_cap.int
          /\ grounded_prompts_count = IF request_index <= hard_cap.int
                                      THEN request_index ELSE hard_cap.int

\* with soft_cap 2 and hard_cap 4, request 5 is the first blocked by the hard cap
C32_Witness ==
    /\ soft_cap = IntValue(2) /\ hard_cap = IntValue(4)
    /\ request_index = 5
    /\ decision.decision_reason = "cap_blocked_hard"
    /\ count_before = 4 /\ grounded_prompts_count = 4

(***************************************************************************)
(* Properties of the request options.                                      *)
(***************************************************************************)
\* C36: the timeout handed to the provider is request_timeout_seconds in
\* milliseconds: 45000 for 45 seconds, 12000 for 12 seconds.
C36_TimeoutInMilliseconds ==
    (request_http_options.built /\ request_timeout_seconds \in { 12, 45 })
        => request_http_options.timeout = request_timeout_seconds * 1000

(***************************************************************************)
(* Properties of chat requests served at the same time.                    *)
(***************************************************************************)
\* C40: in auto mode with a positive hard cap, when every request obtains
\* its decision from the stored count and records after its run, the stored
\* grounded_prompts_count of the month never exceeds hard_cap, also when the
\* decide and record steps of several requests interleave.
C40_StoredCountWithinHardCap ==
    (raw_mode = TextValue(mode_auto) /\ hard_cap.kind = "int" /\ hard_cap.int > 0)
        => \A r \in table : r.grounded_prompts_count <= hard_cap.int

(***************************************************************************)
(* Properties of the limits of the policy.                                 *)
(***************************************************************************)
\* the cap is zero, a negative number, or a text with a letter in it
GivenAsUnset(value) ==
    \/ value.kind = "int" /\ value.int <= 0
    \/ value.kind = "str" /\ \E i \in 1..Len(value.text) : IsLower(value.text[i])

\* C39: a cap given as 0, as a negative number or as a text that is no number
\* never blocks and never tightens grounding, at any count.
C39_UnsetCapsNeverLimit ==
    Decided =>
        /\ GivenAsUnset(free_tier_limit)
              => decision.decision_reason # "cap_blocked_free_tier"
        /\ GivenAsUnset(hard_cap) => decision.decision_reason # "cap_blocked_hard"
        /\ GivenAsUnset(soft_cap) => decision.decision_reason \notin SoftCapReasons
        /\ (GivenAsUnset(free_tier_limit) /\ GivenAsUnset(hard_cap) /\ GivenAsUnset(soft_cap)
              /\ ModeOf(raw_mode) = mode_auto)
              => decision.decision_reason \in { "context_gap", "tree_sufficient", "scope_out" }

\* at a count of 5001, with the free tier limit 0, the soft cap -1 and the hard
\* cap "bad", a context-gap query got grounding with reason context_gap
C39_Witness ==
    /\ Decided
    /\ count_before = 5001
    /\ free_tier_limit = IntValue(0)
    /\ soft_cap = IntValue(-1)
    /\ hard_cap = TextValue(<< "b", "a", "d" >>)
    /\ decision.decision_reason = "context_gap"
    /\ decision.grounding_attached

====
